---- MODULE Spec2Model ----
(***************************************************************************)
(* Blog-API: the comment tree (nested replies, recursive fetch, cascading  *)
(* delete), the cascading post delete and the permission checks of the     *)
(* request handlers, modelled from app/crud and app/routes.                *)
(*                                                                         *)
(* The specifications share the storage variables:                         *)
(*   SeqSpec and the other sequential ones (EditSpec, ReadSpec,            *)
(*            PolicySpec, ErrSpec, FormSpec, SummarySpec, ListSpec,        *)
(*            UserSpec): one request at a time; every handler is one       *)
(*            action that applies the crud functions (operators below).    *)
(*   Spec, SlugSpec, TraverseSpec, CascadeSpec: request tasks that         *)
(*            advance one storage round-trip (one await) per step.         *)
(***************************************************************************)
EXTENDS Integers, Sequences, FiniteSets, TLC

\* ------------------------------------------------------------------ bounds
MaxPosts == 2        \* posts ever created
MaxComments == 3     \* comments ever created
MaxEdited == 2       \* comments ever created where comments are edited
MaxRacing == 2       \* comments ever created where requests interleave
MaxClock == 2        \* last instant of the clock
MaxManaged == 2      \* posts ever created where posts are edited and deleted
MaxNoted == 1        \* comments ever created where requests are refused
MaxSlugged == 2      \* posts ever created where post requests interleave
MaxTitle == 2        \* characters of a title or slug where these vary
MaxLength == 3       \* max_length of a summary, standing for the default 200

\* --------------------------------------------------------------- constants
None == 0
NoUser == "none"
Users == {"u1", "u2", "u3"}
Role(u) == CASE u = "u1" -> "user" [] u = "u2" -> "editor" [] OTHER -> "admin"
Contents == {"a", "b"}
Procs == {1, 2}
Pages == {[limit |-> 10, offset |-> 0], [limit |-> 1, offset |-> 1]}

VARIABLES
    posts,          \* db.posts: set of [id, author_id]
    comments,       \* db.comments: set of comment documents
    nextPostId,     \* next ObjectId handed out by posts.insert_one
    nextCommentId,  \* next ObjectId handed out by comments.insert_one
    clock,          \* last value returned by datetime.utcnow()
    pc,             \* Spec: per request task, the await it is suspended at
    loc,            \* Spec: per request task, its local variables
    last,           \* the response just sent (cleared by the next step)
    users           \* db.users: per user id, the stored document

vars == <<posts, comments, nextPostId, nextCommentId, clock, pc, loc, last, users>>

\* ----------------------------------------------------------- storage layer
CommentIds(C) == {c.id : c \in C}

\* collection.find_one({"_id": id}): the matching documents, {} for None
find_one(coll, id) == {d \in coll : d.id = id}

\* collection.delete_one({"_id": id})
delete_one(coll, id) ==
    [deleted_count |-> Cardinality({d \in coll : d.id = id}),
     coll |-> {d \in coll : d.id # id}]

\* mutant of delete_many: only the root comments of the post are deleted
delete_many_roots(C, post_id) ==
    {c \in C : ~(c.post_id = post_id /\ c.parent_id = None)}

\* db.comments.delete_many({"post_id": post_id})
delete_many(C, post_id) == {c \in C : c.post_id # post_id}

\* cursor order: sort("created_at", dir); documents with equal keys come in
\* an order the server picks, given here by the ranking tb
Before(c, d, dir, tb) ==
    \/ dir * c.created_at < dir * d.created_at
    \/ c.created_at = d.created_at /\ tb[c.id] <= tb[d.id]

RECURSIVE SortBy(_, _, _)
SortBy(S, dir, tb) ==
    IF S = {} THEN <<>>
    ELSE LET m == CHOOSE c \in S : \A d \in S : Before(c, d, dir, tb)
         IN  <<m>> \o SortBy(S \ {m}, dir, tb)

\* cursor.skip(offset).limit(limit)
SkipLimit(s, offset, limit) ==
    SubSeq(s, offset + 1, IF Len(s) < offset + limit THEN Len(s) ELSE offset + limit)

\* datetime.utcnow(): the clock never goes back; two calls may read the
\* same instant
Ticks == {0, 1}

\* ---------------------------------------------------------- app/core/utils
\* A str is a sequence of characters; an Optional value is the set of at
\* most one element ({} for None).
Strings(chars, n) == UNION {[1..k -> chars] : k \in 0..n}
Optional(S) == {{}} \cup {{v} : v \in S}

Alnum == {"a", "b", "1"}                 \* the characters of [a-z0-9] in use
Whitespace == {" ", "\t", "\n"}
Lower(ch) == CASE ch = "A" -> "a" [] ch = "B" -> "b" [] OTHER -> ch

\* "-" runs collapsed, leading "-" dropped
RECURSIVE Squeeze(_, _)
Squeeze(s, after_dash) ==
    IF s = <<>> THEN <<>>
    ELSE IF Head(s) = "-"
         THEN IF after_dash THEN Squeeze(Tail(s), TRUE)
              ELSE <<"-">> \o Squeeze(Tail(s), TRUE)
         ELSE <<Head(s)>> \o Squeeze(Tail(s), FALSE)

\* slugify(text) of python-slugify: lower case, every run of characters
\* outside [a-z0-9] becomes one "-", no "-" at either end
slugify(text) ==
    LET lowered == [i \in 1..Len(text) |->
                       IF Lower(text[i]) \in Alnum THEN Lower(text[i]) ELSE "-"]
        squeezed == Squeeze(lowered, TRUE)
    IN  IF squeezed # <<>> /\ squeezed[Len(squeezed)] = "-"
        THEN SubSeq(squeezed, 1, Len(squeezed) - 1)
        ELSE squeezed

generate_slug(text) == slugify(text)

\* the whole of s is [a-z0-9]+(-[a-z0-9]+)*
SlugPattern(s) ==
    /\ s # <<>>
    /\ \A i \in 1..Len(s) : s[i] \in Alnum \cup {"-"}
    /\ s[1] # "-" /\ s[Len(s)] # "-"
    /\ \A i \in 1..Len(s) - 1 : ~(s[i] = "-" /\ s[i + 1] = "-")

\* re.match(r"^[a-z0-9]+(?:-[a-z0-9]+)*$", slug): "$" matches at the end of
\* the string and before a newline that ends it
is_valid_slug(slug) ==
    \/ SlugPattern(slug)
    \/ /\ slug # <<>> /\ slug[Len(slug)] = "\n"
       /\ SlugPattern(SubSeq(slug, 1, Len(slug) - 1))

\* str.rfind(" "): index from 0 of the last space, -1 when there is none
rfind_space(s) ==
    LET at == {i \in 1..Len(s) : s[i] = " "}
    IN  IF at = {} THEN -1 ELSE (CHOOSE i \in at : \A j \in at : j <= i) - 1

RECURSIVE rstrip(_)
rstrip(s) ==
    IF s # <<>> /\ s[Len(s)] \in Whitespace
    THEN rstrip(SubSeq(s, 1, Len(s) - 1))
    ELSE s

\* mutant of get_summary_from_content: the cut is at the first space
get_summary_at_first_space(content, max_length) ==
    IF Len(content) <= max_length THEN content
    ELSE LET summary == SubSeq(content, 1, max_length)
             at == {i \in 1..Len(summary) : summary[i] = " "}
             cut == IF at # {}
                    THEN SubSeq(summary, 1, (CHOOSE i \in at : \A j \in at : i <= j) - 1)
                    ELSE summary
         IN  rstrip(cut) \o <<".", ".", ".">>

get_summary_from_content(content, max_length) ==
    IF Len(content) <= max_length THEN content
    ELSE LET summary == SubSeq(content, 1, max_length)
             last_space == rfind_space(summary)
             cut == IF last_space # -1 THEN SubSeq(summary, 1, last_space)
                    ELSE summary
         IN  rstrip(cut) \o <<".", ".", ".">>

\* ------------------------------------------------------- app/crud/comment
\* the public view of a stored comment (author embedded, _id as id)
get_comment_by_id(C, comment_id) ==
    {[id |-> c.id, post_id |-> c.post_id, parent_id |-> c.parent_id,
      author |-> [id |-> c.author_id], content |-> c.content,
      created_at |-> c.created_at, updated_at |-> c.updated_at]
        : c \in find_one(C, comment_id)}

\* an element of a listing: the comment and, when attached, its replies
Item(c, has_replies, replies) ==
    [id |-> c.id, post_id |-> c.post_id, parent_id |-> c.parent_id,
     created_at |-> c.created_at, has_replies |-> has_replies,
     replies |-> replies]

RECURSIVE get_comment_replies(_, _, _)
\* mutant of get_comment_replies: the cursor is sorted newest first
get_comment_replies_desc(C, parent_id, tb) ==
    LET cursor == SortBy({c \in C : c.parent_id = parent_id}, -1, tb)
    IN  [i \in 1..Len(cursor) |->
            Item(cursor[i], TRUE, get_comment_replies(C, cursor[i].id, tb))]

get_comment_replies(C, parent_id, tb) ==
    LET cursor == SortBy({c \in C : c.parent_id = parent_id}, 1, tb)
    IN  [i \in 1..Len(cursor) |->
            Item(cursor[i], TRUE, get_comment_replies(C, cursor[i].id, tb))]

\* mutant of get_comments_by_post: the query never filters on parent_id
get_comments_by_post_all(C, post_id, limit, offset, include_replies, tb) ==
    LET cursor == SkipLimit(SortBy({c \in C : c.post_id = post_id}, -1, tb),
                            offset, limit)
    IN  [i \in 1..Len(cursor) |->
            IF include_replies /\ cursor[i].parent_id = None
            THEN Item(cursor[i], TRUE, get_comment_replies(C, cursor[i].id, tb))
            ELSE Item(cursor[i], FALSE, <<>>)]

\* mutant of get_comments_by_post: the query always filters on parent_id
get_comments_by_post_roots(C, post_id, limit, offset, include_replies, tb) ==
    LET query(c) == c.post_id = post_id /\ c.parent_id = None
        cursor == SkipLimit(SortBy({c \in C : query(c)}, -1, tb), offset, limit)
    IN  [i \in 1..Len(cursor) |->
            IF include_replies /\ cursor[i].parent_id = None
            THEN Item(cursor[i], TRUE, get_comment_replies(C, cursor[i].id, tb))
            ELSE Item(cursor[i], FALSE, <<>>)]

get_comments_by_post(C, post_id, limit, offset, include_replies, tb) ==
    LET query(c) == /\ c.post_id = post_id
                    /\ (~include_replies => c.parent_id = None)
        cursor == SkipLimit(SortBy({c \in C : query(c)}, -1, tb), offset, limit)
    IN  [i \in 1..Len(cursor) |->
            IF include_replies /\ cursor[i].parent_id = None
            THEN Item(cursor[i], TRUE, get_comment_replies(C, cursor[i].id, tb))
            ELSE Item(cursor[i], FALSE, <<>>)]

get_comments_count_by_post(C, post_id) ==
    Cardinality({c \in C : c.post_id = post_id})

\* result of a crud call: raised is the HTTP status of the exception it
\* raised (0 when it returned), ret its return value, comments the storage
\* it leaves
Result(raised, ret, C) == [raised |-> raised, ret |-> ret, comments |-> C]

\* mutant of create_comment: the parent is looked up by id alone
create_comment_any_post(P, C, post_id, parent_id, content, author_id, new_id, now) ==
    IF find_one(P, post_id) = {} THEN Result(404, FALSE, C)
    ELSE IF parent_id # None /\ find_one(C, parent_id) = {}
    THEN Result(404, FALSE, C)
    ELSE Result(0, TRUE,
                C \cup {[id |-> new_id, post_id |-> post_id,
                         parent_id |-> parent_id, author_id |-> author_id,
                         content |-> content, created_at |-> now,
                         updated_at |-> now]})

create_comment(P, C, post_id, parent_id, content, author_id, new_id, now) ==
    IF find_one(P, post_id) = {} THEN Result(404, FALSE, C)
    ELSE IF parent_id # None
            /\ {c \in find_one(C, parent_id) : c.post_id = post_id} = {}
    THEN Result(404, FALSE, C)
    ELSE Result(0, TRUE,
                C \cup {[id |-> new_id, post_id |-> post_id,
                         parent_id |-> parent_id, author_id |-> author_id,
                         content |-> content, created_at |-> now,
                         updated_at |-> now]})

\* mutant of update_comment: no permission check
update_comment_unchecked(C, comment_id, content, author_id, now) ==
    IF find_one(C, comment_id) = {} THEN Result(0, FALSE, C)
    ELSE LET comment == CHOOSE c \in find_one(C, comment_id) : TRUE
         IN  Result(0, TRUE,
                    (C \ {comment}) \cup
                    {[comment EXCEPT !.content = content, !.updated_at = now]})

\* mutant of update_comment: the whole document is written anew
update_comment_rewritten(C, comment_id, content, author_id, now) ==
    IF find_one(C, comment_id) = {} THEN Result(0, FALSE, C)
    ELSE LET comment == CHOOSE c \in find_one(C, comment_id) : TRUE
         IN  IF comment.author_id # author_id THEN Result(403, FALSE, C)
             ELSE Result(0, TRUE,
                         (C \ {comment}) \cup
                         {[comment EXCEPT !.content = content,
                                          !.created_at = now,
                                          !.updated_at = now]})

update_comment(C, comment_id, content, author_id, now) ==
    IF find_one(C, comment_id) = {} THEN Result(0, FALSE, C)
    ELSE LET comment == CHOOSE c \in find_one(C, comment_id) : TRUE
         IN  IF comment.author_id # author_id THEN Result(403, FALSE, C)
             ELSE Result(0, TRUE,
                         (C \ {comment}) \cup
                         {[comment EXCEPT !.content = content,
                                          !.updated_at = now]})

RECURSIVE delete_comment_replies(_, _)
RECURSIVE delete_each_reply(_, _)
\* the loop body of delete_comment_replies over the documents of the cursor
delete_each_reply(C, cursor) ==
    IF cursor = {} THEN C
    ELSE LET comment == CHOOSE c \in cursor : TRUE
             C1 == delete_comment_replies(C, comment.id)
             C2 == delete_one(C1, comment.id).coll
         IN  delete_each_reply(C2, cursor \ {comment})

\* mutant of delete_comment_replies: the direct replies are deleted without
\* descending into their replies
delete_comment_replies_flat(C, parent_id) ==
    {c \in C : c.parent_id # parent_id}

delete_comment_replies(C, parent_id) ==
    delete_each_reply(C, {c \in C : c.parent_id = parent_id})

\* the body of delete_comment's try block
delete_comment_try(C, comment_id, author_id, is_admin) ==
    IF find_one(C, comment_id) = {} THEN Result(0, FALSE, C)
    ELSE LET comment == CHOOSE c \in find_one(C, comment_id) : TRUE
         IN  IF ~is_admin /\ author_id # NoUser /\ comment.author_id # author_id
             THEN Result(403, FALSE, C)
             ELSE LET C1 == delete_comment_replies(C, comment_id)
                      result == delete_one(C1, comment_id)
                  IN  Result(0, result.deleted_count > 0, result.coll)

\* except Exception: return False  (HTTPException is an Exception)
delete_comment(C, comment_id, author_id, is_admin) ==
    LET r == delete_comment_try(C, comment_id, author_id, is_admin)
    IN  IF r.raised # 0 THEN Result(0, FALSE, r.comments) ELSE r

\* ---------------------------------------------------------- app/crud/post
\* the public view of a stored post (author embedded, _id as id); its
\* comments_count is get_comments_count_by_post of the post
get_post_by_id(P, post_id) ==
    {[id |-> p.id, author |-> [id |-> p.author_id], title |-> p.title,
      slug |-> p.slug, content |-> p.content, summary |-> p.summary,
      status |-> p.status, tags |-> p.tags, created_at |-> p.created_at,
      updated_at |-> p.updated_at]
        : p \in find_one(P, post_id)}

\* the filter document built from the supplied filters (lines 71-84)
PostQuery(filters, p) ==
    /\ p.status \in (IF filters.status # {} THEN filters.status ELSE {"published"})
    /\ filters.tags \subseteq p.tags
    /\ filters.author_id \subseteq {p.author_id}

\* mutant of get_posts: no default status
get_posts_any_status(P, limit, offset, filters, tb) ==
    LET query(p) == /\ filters.status \subseteq {p.status}
                    /\ filters.tags \subseteq p.tags
                    /\ filters.author_id \subseteq {p.author_id}
        cursor == SkipLimit(SortBy({p \in P : query(p)}, -1, tb), offset, limit)
    IN  [i \in 1..Len(cursor) |->
            CHOOSE full_post \in get_post_by_id(P, cursor[i].id) : TRUE]

get_posts(P, limit, offset, filters, tb) ==
    LET cursor == SkipLimit(SortBy({p \in P : PostQuery(filters, p)}, -1, tb),
                            offset, limit)
    IN  [i \in 1..Len(cursor) |->
            CHOOSE full_post \in get_post_by_id(P, cursor[i].id) : TRUE]

get_posts_count(P, filters) == Cardinality({p \in P : PostQuery(filters, p)})

\* result of a post crud call: raised is the HTTP status of the exception it
\* raised (0 when it returned), detail the exception's message
PostResult(raised, detail, ret, P) ==
    [raised |-> raised, detail |-> detail, ret |-> ret, posts |-> P]

\* mutant of posts_insert_one: no unique index on slug
posts_insert_one_no_index(P, doc) == [duplicate_key |-> FALSE, coll |-> P \cup {doc}]

\* db.posts.insert_one under the unique index on slug (mongodb.py:15): a
\* second document with a stored slug raises DuplicateKeyError
posts_insert_one(P, doc) ==
    IF \E p \in P : p.slug = doc.slug
    THEN [duplicate_key |-> TRUE, coll |-> P]
    ELSE [duplicate_key |-> FALSE, coll |-> P \cup {doc}]

\* db.posts.update_one({"_id": post_id}, {"$set": doc}) under the unique
\* index; doc is the document as updated
posts_update_one(P, post_id, doc) ==
    IF find_one(P, post_id) = {} THEN [duplicate_key |-> FALSE, coll |-> P]
    ELSE IF \E p \in P : p.id # post_id /\ p.slug = doc.slug
    THEN [duplicate_key |-> TRUE, coll |-> P]
    ELSE [duplicate_key |-> FALSE,
          coll |-> {p \in P : p.id # post_id} \cup {doc}]

\* lines 127-137 and 147-154 of create_post: the document to insert, its
\* slug taken or generated
NewPost(post_data, author_id, new_id, now) ==
    [id |-> new_id, author_id |-> author_id, title |-> post_data.title,
     slug |-> IF post_data.slug \in {{}, {<<>>}}
              THEN generate_slug(post_data.title)
              ELSE CHOOSE slug \in post_data.slug : TRUE,
     content |-> post_data.content,
     summary |-> IF post_data.summary \in {{}, {<<>>}}
                 THEN get_summary_from_content(post_data.content, MaxLength)
                 ELSE CHOOSE summary \in post_data.summary : TRUE,
     status |-> post_data.status, tags |-> post_data.tags,
     created_at |-> now, updated_at |-> now]

\* mutant of create_post: the slug is not looked up before the insert
create_post_no_lookup(P, post_data, author_id, new_id, now) ==
    LET doc == NewPost(post_data, author_id, new_id, now)
    IN  IF post_data.slug \notin {{}, {<<>>}} /\ ~is_valid_slug(doc.slug)
        THEN PostResult(400, "Invalid slug format", FALSE, P)
        ELSE LET result == posts_insert_one(P, doc)
             IN  IF result.duplicate_key
                 THEN PostResult(500, "DuplicateKeyError", FALSE, P)
                 ELSE PostResult(0, "", TRUE, result.coll)

create_post(P, post_data, author_id, new_id, now) ==
    LET doc == NewPost(post_data, author_id, new_id, now)
    IN  IF post_data.slug \notin {{}, {<<>>}} /\ ~is_valid_slug(doc.slug)
        THEN PostResult(400, "Invalid slug format", FALSE, P)
        ELSE IF \E existing_post \in P : existing_post.slug = doc.slug
        THEN PostResult(400, "Post with this slug already exists", FALSE, P)
        ELSE LET result == posts_insert_one(P, doc)
             IN  IF result.duplicate_key
                 THEN PostResult(500, "DuplicateKeyError", FALSE, P)
                 ELSE PostResult(0, "", TRUE, result.coll)

\* the value a PostUpdate field leaves in the document
Patched(field, old) == IF field = {} THEN old ELSE CHOOSE v \in field : TRUE

\* lines 183-209 of update_post: update_data, the fields to $set
UpdateData(post, post_data, now) ==
    [title |-> post_data.title, content |-> post_data.content,
     tags |-> post_data.tags, status |-> post_data.status,
     slug |-> IF post_data.slug = {<<>>}
              THEN {generate_slug(Patched(post_data.title, post.title))}
              ELSE post_data.slug,
     summary |-> IF post_data.summary # {} THEN post_data.summary
                 ELSE {get_summary_from_content(content, MaxLength)
                          : content \in post_data.content},
     updated_at |-> {now}]

\* {"$set": update_data} applied to a stored document
SetPost(post, update_data) ==
    [post EXCEPT
        !.title = Patched(update_data.title, @),
        !.content = Patched(update_data.content, @),
        !.tags = Patched(update_data.tags, @),
        !.status = Patched(update_data.status, @),
        !.slug = Patched(update_data.slug, @),
        !.summary = Patched(update_data.summary, @),
        !.updated_at = Patched(update_data.updated_at, @)]

UpdatedPost(post, post_data, now) ==
    SetPost(post, UpdateData(post, post_data, now))

\* mutant of update_post: the slug is checked after the other fields are
\* written
update_post_write_first(P, post_id, post_data, author_id, now) ==
    IF find_one(P, post_id) = {} THEN PostResult(0, "", FALSE, P)
    ELSE LET post == CHOOSE p \in find_one(P, post_id) : TRUE
             doc == UpdatedPost(post, post_data, now)
             early == (P \ {post}) \cup {[doc EXCEPT !.slug = post.slug]}
         IN  IF author_id # NoUser /\ post.author_id # author_id
             THEN PostResult(403, "Forbidden", FALSE, P)
             ELSE IF post_data.slug \notin {{}, {<<>>}} /\ ~is_valid_slug(doc.slug)
             THEN PostResult(400, "Invalid slug format", FALSE, early)
             ELSE IF /\ post_data.slug # {} /\ doc.slug # post.slug
                     /\ \E existing_post \in P : existing_post.slug = doc.slug
             THEN PostResult(400, "Post with this slug already exists", FALSE, early)
             ELSE LET result == posts_update_one(P, post_id, doc)
                  IN  IF result.duplicate_key
                      THEN PostResult(500, "DuplicateKeyError", FALSE, P)
                      ELSE PostResult(0, "", TRUE, result.coll)

update_post(P, post_id, post_data, author_id, now) ==
    IF find_one(P, post_id) = {} THEN PostResult(0, "", FALSE, P)
    ELSE LET post == CHOOSE p \in find_one(P, post_id) : TRUE
             doc == UpdatedPost(post, post_data, now)
         IN  IF author_id # NoUser /\ post.author_id # author_id
             THEN PostResult(403, "Forbidden", FALSE, P)
             ELSE IF post_data.slug \notin {{}, {<<>>}} /\ ~is_valid_slug(doc.slug)
             THEN PostResult(400, "Invalid slug format", FALSE, P)
             ELSE IF /\ post_data.slug # {} /\ doc.slug # post.slug
                     /\ \E existing_post \in P : existing_post.slug = doc.slug
             THEN PostResult(400, "Post with this slug already exists", FALSE, P)
             ELSE LET result == posts_update_one(P, post_id, doc)
                  IN  IF result.duplicate_key
                      THEN PostResult(500, "DuplicateKeyError", FALSE, P)
                      ELSE PostResult(0, "", TRUE, result.coll)

PResult(raised, ret, P, C) ==
    [raised |-> raised, ret |-> ret, posts |-> P, comments |-> C]

delete_post_try(P, C, post_id, author_id) ==
    IF find_one(P, post_id) = {} THEN PResult(0, FALSE, P, C)
    ELSE LET post == CHOOSE p \in find_one(P, post_id) : TRUE
         IN  IF author_id # NoUser /\ post.author_id # author_id
             THEN PResult(403, FALSE, P, C)
             ELSE LET C1 == delete_many(C, post_id)
                      result == delete_one(P, post_id)
                  IN  PResult(0, result.deleted_count > 0, result.coll, C1)

delete_post(P, C, post_id, author_id) ==
    LET r == delete_post_try(P, C, post_id, author_id)
    IN  IF r.raised # 0 THEN PResult(0, FALSE, r.posts, r.comments) ELSE r

\* ----------------------------------------------------------- app/crud/user
UserRole == {"user", "editor", "admin"}
FullNames == {"n", "m"}

\* a UserUpdate body: every field optional, role among them
UserUpdates == [role : Optional(UserRole), full_name : Optional(FullNames)]

UserResult(ret, U) == [ret |-> ret, users |-> U]

\* update_user: the fields of the body that are set are written to the
\* user's document; None when there is no such user
update_user(U, user_id, user_data) ==
    IF user_id \notin DOMAIN U
    THEN UserResult({}, U)
    ELSE LET user == [U[user_id] EXCEPT
                         !.role = Patched(user_data.role, @),
                         !.full_name = Patched(user_data.full_name, @)]
         IN  UserResult({user}, [U EXCEPT ![user_id] = user])


\* -------------------------------------------------------------- responses
NoResp ==
    [op |-> "none", user |-> NoUser, status |-> 0, id |-> None,
     content |-> "none", include_replies |-> FALSE, limit |-> 0, offset |-> 0,
     items |-> <<>>, total |-> 0, repeat |-> FALSE, removed |-> {},
     detail |-> "", author_id |-> NoUser, data |-> <<>>]

\* the response to request op of user on document id
Resp(op, user, id, status) ==
    [NoResp EXCEPT !.op = op, !.user = user, !.id = id, !.status = status]

NoLoc ==
    [user |-> NoUser, id |-> None, post_id |-> None, parent_id |-> None,
     content |-> "none", stack |-> <<>>, data |-> <<>>, now |-> 0]

\* rankings the server may use among documents with equal sort keys
Tied(C) ==
    {c.id : c \in {c \in C : \E d \in C : d.id # c.id /\ d.created_at = c.created_at}}
TieBreaks(C) ==
    {[i \in CommentIds(C) |-> IF i \in Tied(C) THEN f[i] ELSE i]
        : f \in Permutations(Tied(C))}

Init ==
    /\ posts = {}
    /\ comments = {}
    /\ nextPostId = 1
    /\ nextCommentId = 1
    /\ clock = 0
    /\ pc = [p \in Procs |-> "idle"]
    /\ loc = [p \in Procs |-> NoLoc]
    /\ last = NoResp
    /\ users = [u \in Users |-> [role |-> Role(u), full_name |-> "n"]]

\* --------------------------------- request handlers, run without interruption
\* a PostCreate body with the defaults of the model: no slug, no summary,
\* no tags, status draft; the i-th such title is i letters long
PlainPost(i) ==
    [title |-> [k \in 1..i |-> "a"], content |-> <<"x">>, summary |-> {},
     tags |-> {}, slug |-> {}, status |-> "draft"]

\* the plain body with another title
Titled(title) == [PlainPost(1) EXCEPT !.title = title]

\* a PostUpdate body with no field set
NoPatch ==
    [title |-> {}, content |-> {}, summary |-> {}, tags |-> {}, slug |-> {},
     status |-> {}]

\* POST /posts
CreatePostReq(u, post_data, t) ==
    /\ clock + t <= MaxClock
    /\ LET r == create_post(posts, post_data, u, nextPostId, clock + t)
           resp(id, status) ==
               [Resp("create_post", u, id, status)
                   EXCEPT !.detail = r.detail, !.data = post_data]
       IN  IF r.raised # 0
           THEN /\ last' = resp(None, r.raised)
                /\ posts' = r.posts
                /\ UNCHANGED <<nextPostId, clock>>
           ELSE /\ posts' = r.posts
                /\ nextPostId' = nextPostId + 1
                /\ clock' = clock + t
                /\ last' = resp(nextPostId, 201)
    /\ UNCHANGED <<users, comments, nextCommentId, pc, loc>>

\* mutant of UpdatePostReq: only an admin is let past the author check
UpdatePostReq_admin_only(u, post_id, post_data, t) ==
    /\ clock + t <= MaxClock
    /\ LET found == get_post_by_id(posts, post_id)
           post == CHOOSE p \in found : TRUE
           is_author == post.author.id = u
           is_editor_or_admin == Role(u) \in {"admin"}
           author_id == IF ~is_editor_or_admin THEN u ELSE NoUser
           r == update_post(posts, post_id, post_data, author_id, clock + t)
           resp(status) ==
               [Resp("update_post", u, post_id, status) EXCEPT !.data = post_data]
       IN  IF found = {}
           THEN /\ last' = resp(404)
                /\ UNCHANGED <<posts, clock>>
           ELSE IF ~is_author /\ ~is_editor_or_admin
           THEN /\ last' = resp(403)
                /\ UNCHANGED <<posts, clock>>
           ELSE IF r.raised # 0
           THEN /\ last' = [resp(r.raised) EXCEPT !.detail = r.detail,
                                                  !.author_id = author_id]
                /\ posts' = r.posts
                /\ UNCHANGED clock
           ELSE /\ posts' = r.posts
                /\ clock' = clock + t
                /\ last' = [resp(IF r.ret THEN 200 ELSE 500)
                               EXCEPT !.author_id = author_id]
    /\ UNCHANGED <<users, comments, nextPostId, nextCommentId, pc, loc>>

\* PUT /posts/{post_id}
UpdatePostReq(u, post_id, post_data, t) ==
    /\ clock + t <= MaxClock
    /\ LET found == get_post_by_id(posts, post_id)
           post == CHOOSE p \in found : TRUE
           is_author == post.author.id = u
           is_editor_or_admin == Role(u) \in {"editor", "admin"}
           author_id == IF ~is_editor_or_admin THEN u ELSE NoUser
           r == update_post(posts, post_id, post_data, author_id, clock + t)
           resp(status) ==
               [Resp("update_post", u, post_id, status) EXCEPT !.data = post_data]
       IN  IF found = {}
           THEN /\ last' = resp(404)
                /\ UNCHANGED <<posts, clock>>
           ELSE IF ~is_author /\ ~is_editor_or_admin
           THEN /\ last' = resp(403)
                /\ UNCHANGED <<posts, clock>>
           ELSE IF r.raised # 0
           THEN /\ last' = [resp(r.raised) EXCEPT !.detail = r.detail,
                                                  !.author_id = author_id]
                /\ posts' = r.posts
                /\ UNCHANGED clock
           ELSE /\ posts' = r.posts
                /\ clock' = clock + t
                /\ last' = [resp(IF r.ret THEN 200 ELSE 500)
                               EXCEPT !.author_id = author_id]
    /\ UNCHANGED <<users, comments, nextPostId, nextCommentId, pc, loc>>

\* GET /posts
GetPostsReq(filters, limit, offset, tb) ==
    /\ last' = [Resp("get_posts", NoUser, None, 200)
                  EXCEPT !.data = filters, !.limit = limit, !.offset = offset,
                         !.items = get_posts(posts, limit, offset, filters, tb),
                         !.total = get_posts_count(posts, filters)]
    /\ UNCHANGED <<users, posts, comments, nextPostId, nextCommentId, clock, pc, loc>>

\* get_current_user: the stored document of the token's user
get_current_user(u) == users[u]

\* mutant of UpdateUserMeReq: the body's role is not looked at
UpdateUserMeReq_any_role(u, user_data) ==
    /\ LET resp(status) ==
               [Resp("update_user_me", u, None, status)
                   EXCEPT !.data = [user_id |-> u, user_data |-> user_data]]
           r == update_user(users, u, user_data)
       IN  IF r.ret = {}
           THEN last' = resp(400) /\ UNCHANGED users
           ELSE last' = resp(200) /\ users' = r.users
    /\ UNCHANGED <<posts, comments, nextPostId, nextCommentId, clock, pc, loc>>

\* PUT /users/me
UpdateUserMeReq(u, user_data) ==
    /\ LET resp(status) ==
               [Resp("update_user_me", u, None, status)
                   EXCEPT !.data = [user_id |-> u, user_data |-> user_data]]
           r == update_user(users, u, user_data)
       IN  IF user_data.role # {}
           THEN last' = resp(403) /\ UNCHANGED users
           ELSE IF r.ret = {}
           THEN last' = resp(400) /\ UNCHANGED users
           ELSE last' = resp(200) /\ users' = r.users
    /\ UNCHANGED <<posts, comments, nextPostId, nextCommentId, clock, pc, loc>>

\* PUT /users/{user_id}
UpdateUserAdminReq(u, user_id, user_data) ==
    /\ LET resp(status) ==
               [Resp("update_user_admin", u, None, status)
                   EXCEPT !.data = [user_id |-> user_id, user_data |-> user_data]]
           r == update_user(users, user_id, user_data)
       IN  IF get_current_user(u).role # "admin"
           THEN last' = resp(403) /\ UNCHANGED users
           ELSE IF r.ret = {}
           THEN last' = resp(404) /\ UNCHANGED users
           ELSE last' = resp(200) /\ users' = r.users
    /\ UNCHANGED <<posts, comments, nextPostId, nextCommentId, clock, pc, loc>>

\* POST /comments
CreateCommentReq(u, post_id, parent_id, content, t) ==
    /\ clock + t <= MaxClock
    /\ LET r == create_comment(posts, comments, post_id, parent_id, content,
                               u, nextCommentId, clock + t)
       IN  IF r.raised # 0
           THEN /\ last' = Resp("create_comment", u, None, r.raised)
                /\ UNCHANGED <<comments, nextCommentId, clock>>
           ELSE /\ comments' = r.comments
                /\ nextCommentId' = nextCommentId + 1
                /\ clock' = clock + t
                /\ last' = Resp("create_comment", u, nextCommentId, 201)
    /\ UNCHANGED <<users, posts, nextPostId, pc, loc>>

\* PUT /comments/{comment_id}
UpdateCommentReq(u, comment_id, content, t) ==
    /\ clock + t <= MaxClock
    /\ LET found == get_comment_by_id(comments, comment_id)
           comment == CHOOSE c \in found : TRUE
           r == update_comment(comments, comment_id, content, u, clock + t)
           resp(status) ==
               [Resp("update_comment", u, comment_id, status)
                   EXCEPT !.content = content]
       IN  IF found = {}
           THEN /\ last' = resp(404)
                /\ UNCHANGED <<comments, clock>>
           ELSE IF comment.author.id # u /\ Role(u) # "admin"
           THEN /\ last' = resp(403)
                /\ UNCHANGED <<comments, clock>>
           ELSE IF r.raised # 0
           THEN /\ last' = resp(r.raised)
                /\ UNCHANGED <<comments, clock>>
           ELSE /\ comments' = r.comments
                /\ clock' = clock + t
                /\ last' = resp(IF r.ret THEN 200 ELSE 500)
    /\ UNCHANGED <<users, posts, nextPostId, nextCommentId, pc, loc>>

\* DELETE /comments/{comment_id}
DeleteCommentReq(u, comment_id) ==
    /\ LET found == get_comment_by_id(comments, comment_id)
           is_admin == Role(u) = "admin"
           r == delete_comment(comments, comment_id,
                               IF ~is_admin THEN u ELSE NoUser, is_admin)
           resp(status) ==
               [Resp("delete_comment", u, comment_id, status)
                   EXCEPT !.repeat = /\ last.op = "delete_comment"
                                     /\ last.id = comment_id
                                     /\ last.status = 204,
                          !.removed = IF found = {} THEN {}
                                      ELSE comments \ r.comments]
       IN  IF found = {}
           THEN /\ last' = resp(404)
                /\ UNCHANGED comments
           ELSE /\ comments' = r.comments
                /\ last' = resp(IF r.ret THEN 204 ELSE 500)
    /\ UNCHANGED <<users, posts, nextPostId, nextCommentId, clock, pc, loc>>

\* DELETE /posts/{post_id}
DeletePostReq(u, post_id) ==
    /\ LET found == get_post_by_id(posts, post_id)
           post == CHOOSE p \in found : TRUE
           is_author == post.author.id = u
           is_editor_or_admin == Role(u) \in {"editor", "admin"}
           author_id == IF ~is_editor_or_admin THEN u ELSE NoUser
           r == delete_post(posts, comments, post_id, author_id)
       IN  IF found = {}
           THEN /\ last' = Resp("delete_post", u, post_id, 404)
                /\ UNCHANGED <<posts, comments>>
           ELSE IF ~is_author /\ ~is_editor_or_admin
           THEN /\ last' = Resp("delete_post", u, post_id, 403)
                /\ UNCHANGED <<posts, comments>>
           ELSE /\ posts' = r.posts
                /\ comments' = r.comments
                /\ last' = [Resp("delete_post", u, post_id,
                                 IF r.ret THEN 204 ELSE 500)
                               EXCEPT !.removed = comments \ r.comments,
                                      !.author_id = author_id]
    /\ UNCHANGED <<users, nextPostId, nextCommentId, clock, pc, loc>>

\* GET /comments/{comment_id}/replies
GetRepliesReq(comment_id, tb) ==
    /\ LET found == get_comment_by_id(comments, comment_id)
       IN  last' = IF found = {}
                   THEN Resp("get_replies", NoUser, comment_id, 404)
                   ELSE [Resp("get_replies", NoUser, comment_id, 200)
                           EXCEPT !.items =
                               get_comment_replies(comments, comment_id, tb)]
    /\ UNCHANGED <<users, posts, comments, nextPostId, nextCommentId, clock, pc, loc>>

\* GET /posts/{post_id}/comments
GetPostCommentsReq(post_id, limit, offset, include_replies, tb) ==
    /\ LET resp(status) ==
               [Resp("get_post_comments", NoUser, post_id, status)
                   EXCEPT !.limit = limit, !.offset = offset,
                          !.include_replies = include_replies]
       IN  last' = IF get_post_by_id(posts, post_id) = {}
                   THEN resp(404)
                   ELSE [resp(200) EXCEPT
                           !.items = get_comments_by_post(comments, post_id,
                                        limit, offset, include_replies, tb),
                           !.total = get_comments_count_by_post(comments, post_id)]
    /\ UNCHANGED <<users, posts, comments, nextPostId, nextCommentId, clock, pc, loc>>

\* ------------------------- request tasks, one storage round-trip per step
Finish(p, resp) ==
    /\ pc' = [pc EXCEPT ![p] = "idle"]
    /\ loc' = [loc EXCEPT ![p] = NoLoc]
    /\ last' = resp

Goto(p, label, locals) ==
    /\ pc' = [pc EXCEPT ![p] = label]
    /\ loc' = [loc EXCEPT ![p] = locals]
    /\ last' = NoResp

\* create_comment: db.posts.find_one
CreateStart(p, u, post_id, parent_id, content) ==
    /\ pc[p] = "idle"
    /\ IF find_one(posts, post_id) = {}
       THEN Finish(p, Resp("create_comment", u, None, 404))
       ELSE Goto(p, IF parent_id # None THEN "c_parent" ELSE "c_insert",
                 [NoLoc EXCEPT !.user = u, !.post_id = post_id,
                               !.parent_id = parent_id, !.content = content])
    /\ UNCHANGED <<users, posts, comments, nextPostId, nextCommentId, clock>>

\* create_comment: db.comments.find_one of the parent
CreateParent(p) ==
    /\ pc[p] = "c_parent"
    /\ IF {c \in find_one(comments, loc[p].parent_id)
              : c.post_id = loc[p].post_id} = {}
       THEN Finish(p, Resp("create_comment", loc[p].user, None, 404))
       ELSE Goto(p, "c_insert", loc[p])
    /\ UNCHANGED <<users, posts, comments, nextPostId, nextCommentId, clock>>

\* create_comment: db.comments.insert_one
CreateInsert(p, t) ==
    /\ pc[p] = "c_insert"
    /\ clock + t <= MaxClock
    /\ comments' = comments \cup
          {[id |-> nextCommentId, post_id |-> loc[p].post_id,
            parent_id |-> loc[p].parent_id, author_id |-> loc[p].user,
            content |-> loc[p].content, created_at |-> clock + t,
            updated_at |-> clock + t]}
    /\ nextCommentId' = nextCommentId + 1
    /\ clock' = clock + t
    /\ Goto(p, "c_read", [loc[p] EXCEPT !.id = nextCommentId])
    /\ UNCHANGED <<users, posts, nextPostId>>

\* create_comment: get_comment_by_id of the inserted comment
CreateRead(p) ==
    /\ pc[p] = "c_read"
    /\ Finish(p, Resp("create_comment", loc[p].user, loc[p].id,
                      IF get_comment_by_id(comments, loc[p].id) = {}
                      THEN 500 ELSE 201))
    /\ UNCHANGED <<users, posts, comments, nextPostId, nextCommentId, clock>>

\* delete_comment_route: get_comment_by_id
DeleteStart(p, u, comment_id) ==
    /\ pc[p] = "idle"
    /\ IF get_comment_by_id(comments, comment_id) = {}
       THEN Finish(p, Resp("delete_comment", u, comment_id, 404))
       ELSE Goto(p, "d_find", [NoLoc EXCEPT !.user = u, !.id = comment_id])
    /\ UNCHANGED <<users, posts, comments, nextPostId, nextCommentId, clock>>

\* delete_comment: db.comments.find_one and the permission check
DeleteFind(p) ==
    /\ pc[p] = "d_find"
    /\ LET found == find_one(comments, loc[p].id)
           comment == CHOOSE c \in found : TRUE
           is_admin == Role(loc[p].user) = "admin"
           author_id == IF ~is_admin THEN loc[p].user ELSE NoUser
       IN  IF found = {}
           THEN Finish(p, Resp("delete_comment", loc[p].user, loc[p].id, 500))
           ELSE IF ~is_admin /\ author_id # NoUser
                   /\ comment.author_id # author_id
           THEN Finish(p, Resp("delete_comment", loc[p].user, loc[p].id, 500))
           ELSE Goto(p, "d_cursor",
                     [loc[p] EXCEPT !.stack =
                         <<[parent_id |-> loc[p].id, cursor |-> {},
                            comment_id |-> None]>>])
    /\ UNCHANGED <<users, posts, comments, nextPostId, nextCommentId, clock>>

\* mutant of Advance: a reply is deleted without its replies being entered
Advance_no_descent(p, stack) ==
    LET n == Len(stack)
        top == stack[n]
    IN  IF top.cursor = {}
        THEN IF n = 1
             THEN Goto(p, "d_self", [loc[p] EXCEPT !.stack = <<>>])
             ELSE Goto(p, "d_reply", [loc[p] EXCEPT !.stack = SubSeq(stack, 1, n - 1)])
        ELSE \E c \in top.cursor :
                Goto(p, "d_reply",
                     [loc[p] EXCEPT !.stack =
                         [stack EXCEPT ![n] = [top EXCEPT !.cursor = @ \ {c},
                                                          !.comment_id = c]]])

\* delete_comment_replies between two iterations of its loop, stack being the
\* activations of delete_comment_replies: the next document of the cursor
\* is taken and its replies are entered, or the activation returns to the
\* delete_one of its caller
Advance(p, stack) ==
    LET n == Len(stack)
        top == stack[n]
    IN  IF top.cursor = {}
        THEN IF n = 1
             THEN Goto(p, "d_self", [loc[p] EXCEPT !.stack = <<>>])
             ELSE Goto(p, "d_reply", [loc[p] EXCEPT !.stack = SubSeq(stack, 1, n - 1)])
        ELSE \E c \in top.cursor :
                Goto(p, "d_cursor",
                     [loc[p] EXCEPT !.stack =
                         Append([stack EXCEPT ![n] =
                                    [top EXCEPT !.cursor = @ \ {c},
                                                !.comment_id = c]],
                                [parent_id |-> c, cursor |-> {},
                                 comment_id |-> None])])

\* delete_comment_replies: db.comments.find({"parent_id": parent_id})
DeleteCursor(p) ==
    /\ pc[p] = "d_cursor"
    /\ LET stack == loc[p].stack
           n == Len(stack)
           found == {c.id : c \in {c \in comments : c.parent_id = stack[n].parent_id}}
       IN  Advance(p, [stack EXCEPT ![n].cursor = found])
    /\ UNCHANGED <<users, posts, comments, nextPostId, nextCommentId, clock>>

\* mutant of DeleteReply: a reply that is already gone ends the request
DeleteReply_strict(p) ==
    /\ pc[p] = "d_reply"
    /\ LET stack == loc[p].stack
           n == Len(stack)
           result == delete_one(comments, stack[n].comment_id)
       IN  /\ comments' = result.coll
           /\ IF result.deleted_count > 0
              THEN Advance(p, [stack EXCEPT ![n].comment_id = None])
              ELSE Finish(p, Resp("delete_comment", loc[p].user, loc[p].id, 500))
    /\ UNCHANGED <<users, posts, nextPostId, nextCommentId, clock>>

\* delete_comment_replies: db.comments.delete_one of the reply
DeleteReply(p) ==
    /\ pc[p] = "d_reply"
    /\ LET stack == loc[p].stack
           n == Len(stack)
       IN  /\ comments' = delete_one(comments, stack[n].comment_id).coll
           /\ Advance(p, [stack EXCEPT ![n].comment_id = None])
    /\ UNCHANGED <<users, posts, nextPostId, nextCommentId, clock>>

\* delete_comment: db.comments.delete_one of the comment itself
DeleteSelf(p) ==
    /\ pc[p] = "d_self"
    /\ LET result == delete_one(comments, loc[p].id)
       IN  /\ comments' = result.coll
           /\ Finish(p, Resp("delete_comment", loc[p].user, loc[p].id,
                             IF result.deleted_count > 0 THEN 204 ELSE 500))
    /\ UNCHANGED <<users, posts, nextPostId, nextCommentId, clock>>

\* delete_post_route: get_post_by_id and the permission check
DeletePostStart(p, u, post_id) ==
    /\ pc[p] = "idle"
    /\ LET found == get_post_by_id(posts, post_id)
           post == CHOOSE d \in found : TRUE
           is_author == post.author.id = u
           is_editor_or_admin == Role(u) \in {"editor", "admin"}
       IN  IF found = {}
           THEN Finish(p, Resp("delete_post", u, post_id, 404))
           ELSE IF ~is_author /\ ~is_editor_or_admin
           THEN Finish(p, Resp("delete_post", u, post_id, 403))
           ELSE Goto(p, "dp_find", [NoLoc EXCEPT !.user = u, !.post_id = post_id])
    /\ UNCHANGED <<users, posts, comments, nextPostId, nextCommentId, clock>>

\* delete_post: db.posts.find_one and the permission check
DeletePostFind(p) ==
    /\ pc[p] = "dp_find"
    /\ LET found == find_one(posts, loc[p].post_id)
           post == CHOOSE d \in found : TRUE
           author_id == IF Role(loc[p].user) \in {"editor", "admin"}
                        THEN NoUser ELSE loc[p].user
       IN  IF found = {}
           THEN Finish(p, Resp("delete_post", loc[p].user, loc[p].post_id, 500))
           ELSE IF author_id # NoUser /\ post.author_id # author_id
           THEN Finish(p, Resp("delete_post", loc[p].user, loc[p].post_id, 500))
           ELSE Goto(p, "dp_comments", loc[p])
    /\ UNCHANGED <<users, posts, comments, nextPostId, nextCommentId, clock>>

\* delete_post: db.comments.delete_many
DeletePostComments(p) ==
    /\ pc[p] = "dp_comments"
    /\ comments' = delete_many(comments, loc[p].post_id)
    /\ Goto(p, "dp_post", loc[p])
    /\ UNCHANGED <<users, posts, nextPostId, nextCommentId, clock>>

\* delete_post: db.posts.delete_one
DeletePostPost(p) ==
    /\ pc[p] = "dp_post"
    /\ LET result == delete_one(posts, loc[p].post_id)
       IN  /\ posts' = result.coll
           /\ Finish(p, Resp("delete_post", loc[p].user, loc[p].post_id,
                             IF result.deleted_count > 0 THEN 204 ELSE 500))
    /\ UNCHANGED <<users, comments, nextPostId, nextCommentId, clock>>

\* create_post: the slug taken or generated and checked, db.posts.find_one
\* of the slug
PostCreateStart(p, u, post_data, t) ==
    /\ pc[p] = "idle"
    /\ clock + t <= MaxClock
    /\ clock' = clock + t
    /\ LET doc == NewPost(post_data, u, None, clock + t)
           resp(status, detail) ==
               [Resp("create_post", u, None, status)
                   EXCEPT !.detail = detail, !.data = post_data]
       IN  IF post_data.slug \notin {{}, {<<>>}} /\ ~is_valid_slug(doc.slug)
           THEN Finish(p, resp(400, "Invalid slug format"))
           ELSE IF \E existing_post \in posts : existing_post.slug = doc.slug
           THEN Finish(p, resp(400, "Post with this slug already exists"))
           ELSE Goto(p, "cp_insert",
                     [NoLoc EXCEPT !.user = u, !.data = post_data,
                                   !.now = clock + t])
    /\ UNCHANGED <<users, posts, comments, nextPostId, nextCommentId>>

\* create_post: db.posts.insert_one
PostCreateInsert(p) ==
    /\ pc[p] = "cp_insert"
    /\ LET doc == NewPost(loc[p].data, loc[p].user, nextPostId, loc[p].now)
           result == posts_insert_one(posts, doc)
       IN  /\ posts' = result.coll
           /\ IF result.duplicate_key
              THEN /\ Finish(p, [Resp("create_post", loc[p].user, None, 500)
                                    EXCEPT !.detail = "DuplicateKeyError",
                                           !.data = loc[p].data])
                   /\ UNCHANGED nextPostId
              ELSE /\ Goto(p, "cp_read", [loc[p] EXCEPT !.id = nextPostId])
                   /\ nextPostId' = nextPostId + 1
    /\ UNCHANGED <<users, comments, nextCommentId, clock>>

\* create_post: get_post_by_id of the inserted post
PostCreateRead(p) ==
    /\ pc[p] = "cp_read"
    /\ Finish(p, [Resp("create_post", loc[p].user, loc[p].id,
                       IF get_post_by_id(posts, loc[p].id) = {} THEN 500 ELSE 201)
                     EXCEPT !.data = loc[p].data])
    /\ UNCHANGED <<users, posts, comments, nextPostId, nextCommentId, clock>>

\* update_post_route: get_post_by_id and the permission check
PostUpdateStart(p, u, post_id, post_data) ==
    /\ pc[p] = "idle"
    /\ LET found == get_post_by_id(posts, post_id)
           post == CHOOSE d \in found : TRUE
           is_author == post.author.id = u
           is_editor_or_admin == Role(u) \in {"editor", "admin"}
           resp(status) ==
               [Resp("update_post", u, post_id, status) EXCEPT !.data = post_data]
       IN  IF found = {} THEN Finish(p, resp(404))
           ELSE IF ~is_author /\ ~is_editor_or_admin THEN Finish(p, resp(403))
           ELSE Goto(p, "up_find",
                     [NoLoc EXCEPT !.user = u, !.post_id = post_id,
                                   !.data = post_data])
    /\ UNCHANGED <<users, posts, comments, nextPostId, nextCommentId, clock>>

\* update_post: db.posts.find_one, the permission check and update_data up
\* to the slug lookup; loc.content keeps the request body for the response
PostUpdateFind(p) ==
    /\ pc[p] = "up_find"
    /\ LET found == find_one(posts, loc[p].post_id)
           post == CHOOSE d \in found : TRUE
           author_id == IF Role(loc[p].user) \in {"editor", "admin"}
                        THEN NoUser ELSE loc[p].user
           post_data == loc[p].data
           update_data == UpdateData(post, post_data, 0)
           resp(status, detail) ==
               [Resp("update_post", loc[p].user, loc[p].post_id, status)
                   EXCEPT !.detail = detail, !.data = post_data,
                          !.author_id = author_id]
           locals == [loc[p] EXCEPT !.data = update_data, !.content = post_data]
       IN  IF found = {} THEN Finish(p, resp(500, ""))
           ELSE IF author_id # NoUser /\ post.author_id # author_id
           THEN Finish(p, resp(403, "Forbidden"))
           ELSE IF /\ post_data.slug \notin {{}, {<<>>}}
                   /\ \E slug \in post_data.slug : ~is_valid_slug(slug)
           THEN Finish(p, resp(400, "Invalid slug format"))
           ELSE IF update_data.slug \notin {{}, {post.slug}}
           THEN Goto(p, "up_slug", locals)
           ELSE Goto(p, "up_write", locals)
    /\ UNCHANGED <<users, posts, comments, nextPostId, nextCommentId, clock>>

\* update_post: db.posts.find_one of the new slug
PostUpdateSlug(p) ==
    /\ pc[p] = "up_slug"
    /\ IF \E existing_post \in posts : existing_post.slug \in loc[p].data.slug
       THEN Finish(p, [Resp("update_post", loc[p].user, loc[p].post_id, 400)
                         EXCEPT !.detail = "Post with this slug already exists",
                                !.data = loc[p].content])
       ELSE Goto(p, "up_write", loc[p])
    /\ UNCHANGED <<users, posts, comments, nextPostId, nextCommentId, clock>>

\* update_post: datetime.utcnow() and db.posts.update_one
PostUpdateWrite(p, t) ==
    /\ pc[p] = "up_write"
    /\ clock + t <= MaxClock
    /\ clock' = clock + t
    /\ LET update_data == [loc[p].data EXCEPT !.updated_at = {clock + t}]
           docs == {SetPost(post, update_data)
                       : post \in find_one(posts, loc[p].post_id)}
           result == IF docs = {} THEN [duplicate_key |-> FALSE, coll |-> posts]
                     ELSE posts_update_one(posts, loc[p].post_id,
                                           CHOOSE doc \in docs : TRUE)
       IN  /\ posts' = result.coll
           /\ IF result.duplicate_key
              THEN Finish(p, [Resp("update_post", loc[p].user, loc[p].post_id, 500)
                                EXCEPT !.detail = "DuplicateKeyError",
                                       !.data = loc[p].content])
              ELSE Goto(p, "up_read", loc[p])
    /\ UNCHANGED <<users, comments, nextPostId, nextCommentId>>

\* update_post: get_post_by_id of the updated post
PostUpdateRead(p) ==
    /\ pc[p] = "up_read"
    /\ Finish(p, [Resp("update_post", loc[p].user, loc[p].post_id,
                       IF get_post_by_id(posts, loc[p].post_id) = {}
                       THEN 500 ELSE 200)
                     EXCEPT !.data = loc[p].content])
    /\ UNCHANGED <<users, posts, comments, nextPostId, nextCommentId, clock>>

\* the reads, one storage round-trip per step. stack holds the activations
\* of the function that is iterating a cursor: the documents the cursor still
\* has to yield, the list built so far and the document whose replies are
\* being fetched. data notes which ids were stored when the read began and
\* which documents find_one no longer found, each with the parent_id of the
\* cursor that had yielded it (None for the cursor of the post).
Activation(kind, parent_id) ==
    [kind |-> kind, parent_id |-> parent_id, cursor |-> <<>>,
     replies |-> <<>>, full_comment |-> {}]

Reading(include_replies) ==
    [start |-> CommentIds(comments), vanished |-> {},
     include_replies |-> include_replies]

\* the label after an iteration of the loop: the next document, or the return
Iterate(activation) == IF activation.cursor = <<>> THEN "r_return" ELSE "r_doc"

\* get_comment_with_replies_route: get_comment_by_id of the comment
ReadRepliesStart(p, comment_id) ==
    /\ pc[p] = "idle"
    /\ IF get_comment_by_id(comments, comment_id) = {}
       THEN Finish(p, [Resp("get_replies", NoUser, comment_id, 404)
                          EXCEPT !.data = Reading(TRUE)])
       ELSE Goto(p, "r_cursor",
                 [NoLoc EXCEPT !.id = comment_id, !.data = Reading(TRUE),
                               !.stack = <<Activation("replies", comment_id)>>])
    /\ UNCHANGED <<users, posts, comments, nextPostId, nextCommentId, clock>>

\* get_post_comments: get_post_by_id of the post
ReadPostStart(p, post_id, include_replies) ==
    /\ pc[p] = "idle"
    /\ IF get_post_by_id(posts, post_id) = {}
       THEN Finish(p, [Resp("get_post_comments", NoUser, post_id, 404)
                          EXCEPT !.data = Reading(include_replies)])
       ELSE Goto(p, "r_cursor",
                 [NoLoc EXCEPT !.id = post_id, !.data = Reading(include_replies),
                               !.stack = <<Activation("post", None)>>])
    /\ UNCHANGED <<users, posts, comments, nextPostId, nextCommentId, clock>>

\* get_comments_by_post, get_comment_replies: the cursor of db.comments.find
\* is fetched, sorted
ReadCursor(p) ==
    /\ pc[p] = "r_cursor"
    /\ \E tb \in TieBreaks(comments) :
        LET stack == loc[p].stack
            n == Len(stack)
            top == stack[n]
            query(c) == IF top.kind = "replies"
                        THEN c.parent_id = top.parent_id
                        ELSE /\ c.post_id = loc[p].id
                             /\ ~loc[p].data.include_replies => c.parent_id = None
            found == {c \in comments : query(c)}
            cursor == IF top.kind = "replies"
                      THEN SortBy(found, 1, tb)
                      ELSE SkipLimit(SortBy(found, -1, tb), 0, 10)
            fetched == [top EXCEPT !.cursor = [i \in 1..Len(cursor) |-> cursor[i].id]]
        IN  Goto(p, Iterate(fetched), [loc[p] EXCEPT !.stack[n] = fetched])
    /\ UNCHANGED <<users, posts, comments, nextPostId, nextCommentId, clock>>

\* mutant of ReadDoc: a document that is gone fails the request
ReadDoc_raising(p) ==
    /\ pc[p] = "r_doc"
    /\ LET stack == loc[p].stack
           n == Len(stack)
           top == stack[n]
           comment_id == Head(top.cursor)
           found == get_comment_by_id(comments, comment_id)
           next == [top EXCEPT !.cursor = Tail(@)]
           full_comment == CHOOSE c \in found : TRUE
           nested == top.kind = "replies" \/ /\ loc[p].data.include_replies
                                              /\ full_comment.parent_id = None
           done == [next EXCEPT !.replies = Append(@, Item(full_comment, FALSE, <<>>))]
       IN  IF found = {}
           THEN Finish(p, [Resp(IF top.kind = "replies" THEN "get_replies"
                                ELSE "get_post_comments", NoUser, loc[p].id, 500)
                              EXCEPT !.data = loc[p].data])
           ELSE IF nested
           THEN Goto(p, "r_cursor",
                     [loc[p] EXCEPT !.stack =
                         Append([stack EXCEPT ![n] =
                                    [next EXCEPT !.full_comment = found]],
                                Activation("replies", comment_id))])
           ELSE Goto(p, Iterate(done), [loc[p] EXCEPT !.stack[n] = done])
    /\ UNCHANGED <<users, posts, comments, nextPostId, nextCommentId, clock>>

\* get_comments_by_post, get_comment_replies: get_comment_by_id of the next
\* document of the cursor; a document that is gone is skipped, one that is
\* there has its replies fetched or is appended as it is
ReadDoc(p) ==
    /\ pc[p] = "r_doc"
    /\ LET stack == loc[p].stack
           n == Len(stack)
           top == stack[n]
           comment_id == Head(top.cursor)
           found == get_comment_by_id(comments, comment_id)
           next == [top EXCEPT !.cursor = Tail(@)]
           full_comment == CHOOSE c \in found : TRUE
           nested == top.kind = "replies" \/ /\ loc[p].data.include_replies
                                              /\ full_comment.parent_id = None
           done == [next EXCEPT !.replies = Append(@, Item(full_comment, FALSE, <<>>))]
       IN  IF found = {}
           THEN Goto(p, Iterate(next),
                     [loc[p] EXCEPT !.stack[n] = next,
                                    !.data.vanished =
                                        @ \cup {<<top.parent_id, comment_id>>}])
           ELSE IF nested
           THEN Goto(p, "r_cursor",
                     [loc[p] EXCEPT !.stack =
                         Append([stack EXCEPT ![n] =
                                    [next EXCEPT !.full_comment = found]],
                                Activation("replies", comment_id))])
           ELSE Goto(p, Iterate(done), [loc[p] EXCEPT !.stack[n] = done])
    /\ UNCHANGED <<users, posts, comments, nextPostId, nextCommentId, clock>>

\* get_comment_replies returns its list: to the caller that attaches it to
\* the comment it fetched, or to the route
ReadReturn(p) ==
    /\ pc[p] = "r_return"
    /\ LET stack == loc[p].stack
           n == Len(stack)
           top == stack[n]
           caller == stack[n - 1]
           full_comment == CHOOSE c \in caller.full_comment : TRUE
           done == [caller EXCEPT
                       !.replies = Append(@, Item(full_comment, TRUE, top.replies)),
                       !.full_comment = {}]
       IN  IF n > 1
           THEN Goto(p, Iterate(done),
                     [loc[p] EXCEPT !.stack = Append(SubSeq(stack, 1, n - 2), done)])
           ELSE IF top.kind = "replies"
           THEN Finish(p, [Resp("get_replies", NoUser, loc[p].id, 200)
                              EXCEPT !.items = top.replies, !.data = loc[p].data])
           ELSE Goto(p, "r_count", loc[p])
    /\ UNCHANGED <<users, posts, comments, nextPostId, nextCommentId, clock>>

\* get_post_comments: get_comments_count_by_post
ReadCount(p) ==
    /\ pc[p] = "r_count"
    /\ Finish(p, [Resp("get_post_comments", NoUser, loc[p].id, 200)
                     EXCEPT !.items = loc[p].stack[1].replies,
                            !.include_replies = loc[p].data.include_replies,
                            !.total = get_comments_count_by_post(comments, loc[p].id),
                            !.data = loc[p].data])
    /\ UNCHANGED <<users, posts, comments, nextPostId, nextCommentId, clock>>


\* ------------------------------------------------------------ environments
PostIdInputs == 1..MaxPosts

\* users who write posts and comments; every user of Users edits and deletes
Authors == {"u1", "u2"}

\* A refusal or a listing leaves storage as it found it, so the requests that
\* can follow it are those that can follow the response before it: the
\* sequential environments issue a request after a response that is none of
\* the two.
Settled ==
    /\ last.status < 400
    /\ last.op \notin {"get_replies", "get_post_comments", "get_posts"}

\* posts and comments created and deleted, one request at a time: u1 writes
\* the posts and opens the threads, u1 and u2 reply, anyone deletes
SeqNext ==
    /\ Settled
    /\ \/ /\ nextPostId <= MaxPosts
          /\ CreatePostReq("u1", PlainPost(nextPostId), 0)
       \/ \E u \in Authors, post_id \in PostIdInputs,
             parent_id \in {None} \cup 1..MaxComments :
               /\ nextCommentId <= MaxComments
               /\ parent_id = None => u = "u1"
               /\ CreateCommentReq(u, post_id, parent_id, "a", 0)
       \/ \E u \in Users, comment_id \in 1..MaxComments :
               DeleteCommentReq(u, comment_id)
       \/ \E u \in Users, post_id \in PostIdInputs : DeletePostReq(u, post_id)

SeqSpec == Init /\ [][SeqNext]_vars

\* the comments of one post, edited with varying texts at the instants of the
\* clock
EditNext ==
    /\ Settled
    /\ \/ posts = {} /\ nextPostId = 1 /\ CreatePostReq("u1", PlainPost(1), 0)
       \/ \E u \in Authors, post_id \in PostIdInputs,
             parent_id \in {None} \cup 1..MaxEdited :
               /\ nextCommentId <= MaxEdited
               /\ CreateCommentReq(u, post_id, parent_id, "a", 0)
       \/ \E u \in Users, comment_id \in 1..MaxEdited, content \in Contents,
             t \in Ticks :
               UpdateCommentReq(u, comment_id, content, t)

EditSpec == Init /\ [][EditNext]_vars

\* threads of one author written at the instants of the clock, and listed
ReadNext ==
    /\ Settled
    /\ \/ /\ nextPostId <= MaxPosts
          /\ CreatePostReq("u1", PlainPost(nextPostId), 0)
       \/ \E post_id \in PostIdInputs, parent_id \in {None} \cup 1..MaxComments,
             t \in Ticks :
               /\ nextCommentId <= MaxComments
               /\ CreateCommentReq("u1", post_id, parent_id, "a", t)
       \/ \E comment_id \in 1..MaxComments, tb \in TieBreaks(comments) :
               GetRepliesReq(comment_id, tb)
       \/ \E post_id \in PostIdInputs, page \in Pages,
             include_replies \in BOOLEAN, tb \in TieBreaks(comments) :
               GetPostCommentsReq(post_id, page.limit, page.offset,
                                  include_replies, tb)

ReadSpec == Init /\ [][ReadNext]_vars

\* posts of authors of every role, edited and deleted by users of every role
PolicyPatches ==
    {[NoPatch EXCEPT !.title = {<<"b">>}],
     [NoPatch EXCEPT !.slug = {<<"b">>}],
     [NoPatch EXCEPT !.slug = {<<"-">>}],
     [NoPatch EXCEPT !.slug = {<<>>}]}

PolicyNext ==
    /\ Settled
    /\ \/ \E u \in Users :
               /\ nextPostId <= MaxManaged
               /\ CreatePostReq(u, PlainPost(nextPostId), 0)
       \/ \E u \in Users, post_id \in 1..MaxManaged, post_data \in PolicyPatches :
               UpdatePostReq(u, post_id, post_data, 0)
       \/ \E u \in Users, post_id \in 1..MaxManaged : DeletePostReq(u, post_id)

PolicySpec == Init /\ [][PolicyNext]_vars

\* requests with malformed, taken and missing references next to good ones,
\* on the posts of the editor and the comments of the plain user
ErrPosts(i) ==
    {PlainPost(i), PlainPost(1), [PlainPost(i) EXCEPT !.slug = {<<"-">>}]}

ErrPatches ==
    {[NoPatch EXCEPT !.title = {<<"b">>}],
     [NoPatch EXCEPT !.title = {<<"b">>}, !.slug = {<<"a">>}],
     [NoPatch EXCEPT !.title = {<<"b">>}, !.slug = {<<"A">>}]}

ErrNext ==
    /\ Settled
    /\ \/ \E post_data \in ErrPosts(nextPostId) :
               /\ \/ nextPostId <= MaxManaged
                  \/ create_post(posts, post_data, "u2", nextPostId, clock).raised # 0
               /\ CreatePostReq("u2", post_data, 0)
       \/ \E u \in Users, post_id \in 1..MaxManaged, post_data \in ErrPatches :
               UpdatePostReq(u, post_id, post_data, 0)
       \/ \E u \in Users, post_id \in 1..MaxManaged : DeletePostReq(u, post_id)
       \/ \E post_id \in 1..MaxManaged, parent_id \in {None} \cup 1..MaxNoted :
               /\ \/ nextCommentId <= MaxNoted
                  \/ create_comment(posts, comments, post_id, parent_id, "a",
                                    "u1", nextCommentId, clock).raised # 0
               /\ CreateCommentReq("u1", post_id, parent_id, "a", 0)
       \/ \E u \in Users, comment_id \in 1..MaxNoted :
               UpdateCommentReq(u, comment_id, "b", 0)
       \/ \E u \in Users, comment_id \in 1..MaxNoted :
               DeleteCommentReq(u, comment_id)

ErrSpec == Init /\ [][ErrNext]_vars

\* one post at a time, its title and slug drawn from every string of a few
\* characters
TitleChars == {"a", "A", " ", "!"}
SlugChars == {"a", "A", "-", "\n"}

FormNext ==
    /\ Settled
    /\ \/ \E title \in Strings(TitleChars, MaxTitle) \ {<<>>},
             slug \in Optional(Strings(SlugChars, MaxTitle)) :
               /\ posts = {}
               /\ CreatePostReq("u1", [Titled(title) EXCEPT !.slug = slug], 0)
       \/ \E post_id \in 1..MaxManaged,
             title \in Optional(Strings(TitleChars, 1) \ {<<>>}),
             slug \in Optional(Strings(SlugChars, MaxTitle)) :
               UpdatePostReq("u1", post_id,
                             [NoPatch EXCEPT !.title = title, !.slug = slug], 0)
       \/ \E post_id \in 1..MaxManaged :
               nextPostId <= MaxManaged /\ DeletePostReq("u1", post_id)

FormSpec == Init /\ [][FormNext]_vars

\* one post, its content drawn from every string up to two characters
\* longer than a summary
ContentChars == {"x", " ", "\t"}

SummaryNext ==
    \E content \in Strings(ContentChars, MaxLength + 2) \ {<<>>},
       summary \in {{}, {<<"s">>}} :
        /\ posts = {}
        /\ CreatePostReq("u1", [PlainPost(1) EXCEPT !.content = content,
                                                     !.summary = summary], 0)

SummarySpec == Init /\ [][SummaryNext]_vars

\* posts of either status, tagged or not, by two authors, at equal or
\* different instants, then one listing
Statuses == {"draft", "published"}
Tags == {"t"}

ListNext ==
    /\ Settled
    /\ \/ \E u \in Authors, status \in Statuses, tags \in SUBSET Tags, t \in Ticks :
               /\ nextPostId <= MaxPosts
               /\ CreatePostReq(u, [PlainPost(nextPostId) EXCEPT !.status = status,
                                                                !.tags = tags], t)
       \/ \E status \in Optional(Statuses), tag \in Optional(Tags),
             author_id \in Optional(Authors),
             limit \in {1, MaxPosts}, offset \in {0, 1}, tb \in TieBreaks(posts) :
               GetPostsReq([status |-> status, tags |-> tag, author_id |-> author_id],
                           limit, offset, tb)

ListSpec == Init /\ [][ListNext]_vars

\* users edit their own profile, an admin edits anyone's, role included
UserNext ==
    /\ Settled
    /\ \/ \E u \in Users, user_data \in UserUpdates : UpdateUserMeReq(u, user_data)
       \/ \E u \in Users, user_id \in Users \cup {"u0"}, user_data \in UserUpdates :
               UpdateUserAdminReq(u, user_id, user_data)

UserSpec == Init /\ [][UserNext]_vars

\* one post and its comments are written while no request is running, at
\* successive instants and the last ones at the same instant; then
\* task 1 reads and, once it has begun, task 2, the author of every comment,
\* deletes, each one storage round-trip at a time, until the read is answered
ReadAnswered == last.op \in {"get_replies", "get_post_comments"}

TraverseNext ==
    /\ ~ReadAnswered
    /\ \/ /\ \A p \in Procs : pc[p] = "idle"
          /\ last.status < 400
          /\ \/ posts = {} /\ nextPostId = 1 /\ CreatePostReq("u1", PlainPost(1), 0)
             \/ \E parent_id \in {None} \cup 1..MaxComments :
                    /\ nextCommentId <= MaxComments
                    /\ CreateCommentReq("u1", 1, parent_id, "a",
                                        IF clock < MaxClock THEN 1 ELSE 0)
       \/ \E comment_id \in 1..MaxComments : ReadRepliesStart(1, comment_id)
       \/ \E include_replies \in BOOLEAN : ReadPostStart(1, 1, include_replies)
       \/ ReadCursor(1)
       \/ ReadDoc(1)
       \/ ReadReturn(1)
       \/ ReadCount(1)
       \/ \E comment_id \in 1..MaxComments :
               pc[1] # "idle" /\ DeleteStart(2, "u1", comment_id)
       \/ DeleteFind(2)
       \/ DeleteCursor(2)
       \/ DeleteReply(2)
       \/ DeleteSelf(2)

TraverseSpec == Init /\ [][TraverseNext]_vars

\* comments are written while no request is running; then one delete runs
\* alone, one storage round-trip at a time
CascadeNext ==
    \/ /\ pc[1] = "idle"
       /\ last.status < 400
       /\ \/ posts = {} /\ nextPostId = 1 /\ CreatePostReq("u1", PlainPost(1), 0)
          \/ \E u \in Authors, parent_id \in {None} \cup 1..MaxComments :
                 /\ nextCommentId <= MaxComments
                 /\ CreateCommentReq(u, 1, parent_id, "a", 0)
    \/ \E u \in Users, comment_id \in 1..MaxComments : DeleteStart(1, u, comment_id)
    \/ DeleteFind(1)
    \/ DeleteCursor(1)
    \/ DeleteReply(1)
    \/ DeleteSelf(1)

CascadeSpec == Init /\ [][CascadeNext]_vars

\* posts with a summary of their own or a derived one, then one update whose
\* body sets any of the fields, the content to what is stored or to
\* something longer than a summary
FrameContents == {<<"x">>, <<"y", "y", "y", "y", "y">>}

FramePatches ==
    [title : Optional({<<"b">>}), content : Optional(FrameContents),
     summary : Optional({<<"s">>}), tags : Optional({{"t"}}),
     status : Optional({"published"}), slug : Optional({<<"b">>, <<>>})]

FrameNext ==
    /\ Settled
    /\ last.op # "update_post"
    /\ \/ \E summary \in Optional({<<"s">>}), content \in FrameContents :
               /\ nextPostId <= MaxManaged
               /\ CreatePostReq("u1", [PlainPost(nextPostId) EXCEPT
                                          !.summary = summary,
                                          !.content = content], 0)
       \/ \E post_id \in 1..MaxManaged, post_data \in FramePatches, t \in Ticks :
               UpdatePostReq("u1", post_id, post_data, t)

FrameSpec == Init /\ [][FrameNext]_vars

\* comments are written while no request is running; then both tasks
\* delete, as the author of every comment, one storage round-trip at a time
DeleteStep(p) ==
    \/ DeleteFind(p)
    \/ DeleteCursor(p)
    \/ DeleteReply(p)
    \/ DeleteSelf(p)

OverlapNext ==
    \/ /\ \A p \in Procs : pc[p] = "idle"
       /\ last.status < 400
       /\ \/ posts = {} /\ nextPostId = 1 /\ CreatePostReq("u1", PlainPost(1), 0)
          \/ \E parent_id \in {None} \cup 1..MaxComments :
                 /\ nextCommentId <= MaxComments
                 /\ CreateCommentReq("u1", 1, parent_id, "a", 0)
    \/ \E p \in Procs, comment_id \in 1..MaxComments :
            DeleteStart(p, "u1", comment_id)
    \/ \E p \in Procs : DeleteStep(p)

\* the event loop resumes every task whose storage call has returned
OverlapSpec ==
    Init /\ [][OverlapNext]_vars /\ \A p \in Procs : WF_vars(DeleteStep(p))

\* two request tasks interleaving at their storage round-trips
Creating == {p \in Procs : pc[p] \in {"c_parent", "c_insert"}}

Next ==
    \/ nextPostId <= MaxPosts /\ CreatePostReq("u1", PlainPost(nextPostId), 0)
    \/ \E p \in Procs, u \in Authors, post_id \in PostIdInputs,
          parent_id \in {None} \cup 1..MaxRacing :
            /\ nextCommentId + Cardinality(Creating) <= MaxRacing
            /\ CreateStart(p, u, post_id, parent_id, "a")
    \/ \E p \in Procs : CreateParent(p)
    \/ \E p \in Procs : CreateInsert(p, 0)
    \/ \E p \in Procs : CreateRead(p)
    \/ \E p \in Procs, u \in Users, comment_id \in 1..MaxRacing :
            DeleteStart(p, u, comment_id)
    \/ \E p \in Procs : DeleteFind(p)
    \/ \E p \in Procs : DeleteCursor(p)
    \/ \E p \in Procs : DeleteReply(p)
    \/ \E p \in Procs : DeleteSelf(p)
    \/ \E p \in Procs, u \in Users, post_id \in PostIdInputs :
            DeletePostStart(p, u, post_id)
    \/ \E p \in Procs : DeletePostFind(p)
    \/ \E p \in Procs : DeletePostComments(p)
    \/ \E p \in Procs : DeletePostPost(p)

Spec == Init /\ [][Next]_vars

\* two post requests of one author interleaving at their storage round-trips,
\* with titles and slugs that collide
SlugPosts ==
    {Titled(<<"a">>), Titled(<<"A">>), Titled(<<"b">>), Titled(<<"1">>),
     [Titled(<<"b">>) EXCEPT !.slug = {<<"a">>}]}

SlugPatches ==
    {[NoPatch EXCEPT !.slug = {<<"a">>}],
     [NoPatch EXCEPT !.slug = {<<"b">>}],
     [NoPatch EXCEPT !.slug = {<<>>}, !.title = {<<"A">>}]}

Posting == {p \in Procs : pc[p] = "cp_insert"}

SlugNext ==
    \/ \E p \in Procs, post_data \in SlugPosts :
            /\ nextPostId + Cardinality(Posting) <= MaxSlugged
            /\ PostCreateStart(p, "u1", post_data, 0)
    \/ \E p \in Procs : PostCreateInsert(p)
    \/ \E p \in Procs : PostCreateRead(p)
    \/ \E p \in Procs, post_id \in 1..MaxSlugged, post_data \in SlugPatches :
            PostUpdateStart(p, "u1", post_id, post_data)
    \/ \E p \in Procs : PostUpdateFind(p)
    \/ \E p \in Procs : PostUpdateSlug(p)
    \/ \E p \in Procs : PostUpdateWrite(p, 0)
    \/ \E p \in Procs : PostUpdateRead(p)

SlugSpec == Init /\ [][SlugNext]_vars

\* ------------------------------------------------------------- properties
\* the ids on the parent chain of comment c within C
RECURSIVE Ancestors(_, _)
Ancestors(C, c) ==
    IF c.parent_id = None THEN {}
    ELSE {c.parent_id} \cup UNION {Ancestors(C, p) : p \in find_one(C, c.parent_id)}

\* the comments of C whose parent chain includes x
Descendants(C, x) == {c \in C : x \in Ancestors(C, c)}

\* the ids of a listing and of all its nested replies, in listing order
RECURSIVE Flatten(_)
Flatten(items) ==
    IF items = <<>> THEN <<>>
    ELSE <<Head(items).id>> \o Flatten(Head(items).replies) \o Flatten(Tail(items))

NoDuplicates(s) == \A i, j \in 1..Len(s) : s[i] = s[j] => i = j
Range(s) == {s[i] : i \in 1..Len(s)}

\* at every level of the listing the items are replies to parent, oldest first
RECURSIVE Thread(_, _)
Thread(items, parent) ==
    /\ \A i \in 1..Len(items) : items[i].parent_id = parent
    /\ \A i \in 1..Len(items) - 1 : items[i].created_at <= items[i + 1].created_at
    /\ \A i \in 1..Len(items) : Thread(items[i].replies, items[i].id)

\* C1: under any interleaving of create_comment, delete_comment and
\* delete_post, every stored comment with a parent_id has its parent in
\* storage.
C1_NoDanglingParent ==
    \A c \in comments :
        c.parent_id # None => find_one(comments, c.parent_id) # {}

\* C2: a successful delete_comment of x removes x and its N descendants and
\* nothing else: storage holds N+1 fewer comments, the count of x's post
\* drops by N+1, and no remaining comment has x on its parent chain.
C2_DeleteRemovesSubtree ==
    [][(last'.op = "delete_comment" /\ last'.status = 204) =>
         LET x == last'.id
             target == find_one(comments, x)
             subtree == target \cup Descendants(comments, x)
             N == Cardinality(Descendants(comments, x))
         IN  /\ target # {}
             /\ comments' = comments \ subtree
             /\ Cardinality(comments') = Cardinality(comments) - (N + 1)
             /\ \A c \in comments' : x \notin Ancestors(comments', c)
             /\ \A t \in target :
                   get_comments_count_by_post(comments', t.post_id) =
                   get_comments_count_by_post(comments, t.post_id) - (N + 1)
      ]_vars

\* a user who is not admin has deleted their own root comment, which had a
\* reply of another user and a reply to that reply
C2_Witness ==
    /\ last.op = "delete_comment" /\ last.status = 204
    /\ Role(last.user) # "admin"
    /\ \E r, d, e \in last.removed :
          /\ r.id = last.id /\ r.parent_id = None /\ r.author_id = last.user
          /\ d.parent_id = r.id /\ d.author_id # last.user
          /\ e.parent_id = d.id

\* C3: a delete of a comment id that follows a successful delete of the
\* same id reports success.
C3_DeleteIdempotent ==
    (last.op = "delete_comment" /\ last.repeat) => last.status = 204

\* C4: a delete_comment by a user who is not admin on an existing comment of
\* another author fails with Forbidden (and the comment stays).
C4_DeleteForbidden ==
    \A c \in comments :
        ( /\ last.op = "delete_comment" /\ last.id = c.id
          /\ Role(last.user) # "admin" /\ c.author_id # last.user )
        => last.status = 403

\* C5: every stored comment with a parent_id has its parent in storage, on
\* the same post.
C5_ParentOnSamePost ==
    \A c \in comments :
        c.parent_id # None =>
            \E p \in comments : p.id = c.parent_id /\ p.post_id = c.post_id

\* a reply was created while two posts are stored, the other one commented
C5_Witness ==
    /\ last.op = "create_comment" /\ last.status = 201
    /\ \E c, d \in comments :
          c.id = last.id /\ c.parent_id # None /\ d.post_id # c.post_id
    /\ Cardinality(posts) = 2

\* C6: a successful delete_post removes the post and exactly the comments
\* of that post, so its comment count is 0; the comments of other posts
\* stay.
C6_DeletePostCascades ==
    [][(last'.op = "delete_post" /\ last'.status = 204) =>
         LET x == last'.id
         IN  /\ find_one(posts, x) # {}
             /\ posts' = posts \ find_one(posts, x)
             /\ comments' = {c \in comments : c.post_id # x}
             /\ get_comments_count_by_post(comments', x) = 0
      ]_vars

\* a post with a root comment and a reply by another author was deleted
\* while a comment of another post stays
C6_Witness ==
    /\ last.op = "delete_post" /\ last.status = 204
    /\ \E r, d \in last.removed :
          r.parent_id = None /\ d.parent_id = r.id /\ d.author_id # r.author_id
    /\ comments # {}

\* C7: under any interleaving of delete_post and create_comment, every
\* stored comment names a post that is in storage.
C7_NoCommentWithoutPost ==
    \A c \in comments : find_one(posts, c.post_id) # {}

\* C8: the replies listed for comment x, flattened, are exactly the stored
\* comments with x on their parent chain, each once, and at every level the
\* siblings are replies to the same comment in ascending created_at.
C8_RepliesAreDescendants ==
    (last.op = "get_replies" /\ last.status = 200) =>
        LET ids == Flatten(last.items)
        IN  /\ NoDuplicates(ids)
            /\ Range(ids) = CommentIds(Descendants(comments, last.id))
            /\ Thread(last.items, last.id)

\* the listed comment has two replies written at different instants
C8_Witness ==
    /\ last.op = "get_replies" /\ last.status = 200
    /\ Len(last.items) = 2
    /\ last.items[1].created_at < last.items[2].created_at

\* C9: without include_replies the listing of a post is a page of its root
\* comments, newest first, none with replies attached; with include_replies
\* every listed root carries its whole reply subtree.
C9_ListByPost ==
    (last.op = "get_post_comments" /\ last.status = 200) =>
        LET items == last.items
            roots == {c \in comments : c.post_id = last.id /\ c.parent_id = None}
            rest == Cardinality(roots) - last.offset
        IN  /\ ~last.include_replies =>
                  /\ \A i \in 1..Len(items) :
                        /\ items[i].id \in CommentIds(roots)
                        /\ ~items[i].has_replies
                  /\ NoDuplicates(Flatten(items))
                  /\ \A i \in 1..Len(items) - 1 :
                        items[i].created_at >= items[i + 1].created_at
                  /\ Len(items) = IF rest <= 0 THEN 0
                                  ELSE IF rest < last.limit THEN rest
                                  ELSE last.limit
            /\ last.include_replies =>
                  \A i \in 1..Len(items) :
                      items[i].parent_id = None =>
                          /\ items[i].has_replies
                          /\ NoDuplicates(Flatten(items[i].replies))
                          /\ Range(Flatten(items[i].replies)) =
                                CommentIds(Descendants(comments, items[i].id))
                          /\ Thread(items[i].replies, items[i].id)

\* a listing with include_replies returned a root with a reply that has a
\* reply of its own
C9_Witness ==
    /\ last.op = "get_post_comments" /\ last.status = 200
    /\ last.include_replies
    /\ \E i \in 1..Len(last.items) :
          /\ last.items[i].parent_id = None
          /\ last.items[i].replies # <<>>
          /\ last.items[i].replies[1].replies # <<>>

\* C10: an update_comment of an existing comment by anyone but its author,
\* whatever their role, fails with Forbidden and changes nothing; an update
\* that changes a comment is its author's.
C10_UpdateOnlyByAuthor ==
    [][last'.op = "update_comment" =>
         \A c \in comments :
            c.id = last'.id =>
               /\ c.author_id # last'.user =>
                     last'.status = 403 /\ comments' = comments
               /\ comments' # comments =>
                     /\ c.author_id = last'.user
                     /\ last'.status = 200
                     /\ \E d \in comments' :
                           d.id = c.id /\ d.content = last'.content
      ]_vars

\* an admin was refused the update of another user's comment
C10_Witness ==
    /\ last.op = "update_comment" /\ last.status = 403
    /\ Role(last.user) = "admin"
    /\ \E c \in comments :
          c.id = last.id /\ c.author_id # last.user /\ c.content # last.content

\* C11: an update_comment request on an existing comment is permitted exactly
\* when the actor is its author or an admin: a permitted request sets the
\* content and is not refused, every other request is refused with
\* Forbidden.
C11_AuthorOrAdminEdits ==
    last.op = "update_comment" =>
        \A c \in comments :
            c.id = last.id =>
                IF c.author_id = last.user \/ Role(last.user) = "admin"
                THEN last.status = 200 /\ c.content = last.content
                ELSE last.status = 403

\* every field the PostUpdate body sets has its value in document q
Applied(post_data, q) ==
    /\ post_data.title \subseteq {q.title}
    /\ post_data.content \subseteq {q.content}
    /\ post_data.tags \subseteq {q.tags}
    /\ post_data.status \subseteq {q.status}
    /\ post_data.summary \subseteq {q.summary}
    /\ post_data.slug \subseteq {q.slug, <<>>}
    /\ post_data.slug = {<<>>} => q.slug = slugify(q.title)

\* the slug the PostUpdate body asks for is malformed or is another post's
SlugRefused(P, post, post_data) ==
    /\ post_data.slug # {}
    /\ LET slug == IF post_data.slug = {<<>>}
                   THEN slugify(Patched(post_data.title, post.title))
                   ELSE CHOOSE v \in post_data.slug : TRUE
       IN  \/ post_data.slug # {<<>>} /\ ~is_valid_slug(slug)
           \/ \E p \in P : p.id # post.id /\ p.slug = slug

\* C12: an update or delete request on an existing post is refused with
\* Forbidden, storage unchanged, exactly when the actor is neither the
\* post's author nor editor nor admin; otherwise the store is called
\* without author id for an editor or admin and with the actor's id for a
\* plain user, the delete removes the post and the update writes the body
\* (unless the store rejects its slug).
C12_PostPolicy ==
    [][last'.op \in {"update_post", "delete_post"} =>
         \A post \in posts :
            post.id = last'.id =>
               LET actor == last'.user
                   elevated == Role(actor) \in {"editor", "admin"}
               IN  IF post.author_id # actor /\ ~elevated
                   THEN /\ last'.status = 403
                        /\ posts' = posts /\ comments' = comments
                   ELSE /\ last'.author_id = IF elevated THEN NoUser ELSE actor
                        /\ last'.op = "delete_post" =>
                              /\ last'.status = 204
                              /\ posts' = posts \ {post}
                        /\ last'.op = "update_post" =>
                              IF SlugRefused(posts, post, last'.data)
                              THEN last'.status = 400 /\ posts' = posts
                              ELSE /\ last'.status = 200
                                   /\ \E q \in posts' :
                                         /\ q.id = post.id
                                         /\ Applied(last'.data, q)
                                         /\ posts' \ {q} = posts \ {post}
      ]_vars

\* an editor has retitled the post of a plain user
C12_Witness ==
    /\ last.op = "update_post" /\ last.status = 200
    /\ Role(last.user) = "editor" /\ last.author_id = NoUser
    /\ \E q \in posts :
          /\ q.id = last.id /\ Role(q.author_id) = "user"
          /\ q.title = <<"b">> /\ last.data.title = {<<"b">>}

\* C13: a post or comment request that is refused (malformed or taken slug,
\* missing post, missing parent or parent on another post, Forbidden)
\* leaves posts and comments as they were; a plain user who updates
\* another user's post gets Forbidden.
C13_RefusalChangesNothing ==
    [][/\ last'.status >= 400 => posts' = posts /\ comments' = comments
       /\ \A post \in posts :
             ( /\ last'.op = "update_post" /\ last'.id = post.id
               /\ post.author_id # last'.user /\ Role(last'.user) = "user" )
             => last'.status = 403 /\ post \in posts'
      ]_vars

\* an update that sets a title and the slug of another post was refused
C13_Witness ==
    /\ last.op = "update_post" /\ last.status = 400
    /\ last.detail = "Post with this slug already exists"
    /\ last.data.title # {}
    /\ \E q \in posts : q.id = last.id /\ last.data.title # {q.title}

\* the slug a PostCreate body asks for
RequestedSlug(post_data) ==
    IF post_data.slug \in {{}, {<<>>}} THEN slugify(post_data.title)
    ELSE CHOOSE slug \in post_data.slug : TRUE

\* C14: under every interleaving of create_post and update_post no two
\* stored posts have the same slug; a create_post whose slug, given or
\* derived from the title, is stored when the request arrives is refused
\* with the duplicate-slug error and stores nothing.
C14_SlugsUnique ==
    [][/\ \A p, q \in posts' : p.slug = q.slug => p.id = q.id
       /\ ( /\ last'.op = "create_post" /\ pc' = pc
            /\ \E p \in posts : p.slug = RequestedSlug(last'.data) )
          => /\ last'.status = 400
             /\ last'.detail = "Post with this slug already exists"
             /\ posts' = posts
      ]_vars

\* of two posts racing for one slug the second insert was rejected by the
\* unique index
C14_Witness ==
    /\ last.op = "create_post" /\ last.detail = "DuplicateKeyError"
    /\ \E p \in posts : p.slug = RequestedSlug(last.data)

\* C15: the slug of every stored post matches ^[a-z0-9]+(-[a-z0-9]+)*$,
\* whether given or derived from the title by create_post or update_post,
\* for every title the model accepts.
C15_SlugsWellFormed == \A p \in posts : SlugPattern(p.slug)

Ellipsis == <<".", ".", ".">>

\* C16 as claimed: a post created with content longer than max_length and
\* no summary stores the longest prefix of at most max_length characters
\* that ends at a whitespace boundary (its next character is whitespace),
\* followed by "...".
C16_SummaryEndsAtWhitespace ==
    \A p \in posts :
        (last.data.summary = {} /\ Len(p.content) > MaxLength) =>
            \E k \in 0..MaxLength :
                /\ p.content[k + 1] \in Whitespace
                /\ \A j \in (k + 1)..MaxLength : p.content[j + 1] \notin Whitespace
                /\ p.summary = SubSeq(p.content, 1, k) \o Ellipsis

\* C16 as amended: the stored summary is a prefix of the content followed by
\* "..."; the prefix ends before the last space among the first max_length
\* characters, or with the max_length-th character when none of them is a
\* space, less the whitespace at its end.
C16_SummaryCutAtLastSpace ==
    \A p \in posts :
        (last.data.summary = {} /\ Len(p.content) > MaxLength) =>
            LET spaces == {i \in 1..MaxLength : p.content[i] = " "}
                cut == IF spaces = {} THEN MaxLength
                       ELSE (CHOOSE i \in spaces : \A j \in spaces : j <= i) - 1
            IN  \E k \in 0..cut :
                    /\ p.summary = SubSeq(p.content, 1, k) \o Ellipsis
                    /\ k > 0 => p.content[k] \notin Whitespace
                    /\ \A j \in (k + 1)..cut : p.content[j] \in Whitespace

\* a post was created from content with two spaces among its first
\* max_length characters and no summary
C16_Witness ==
    /\ last.op = "create_post" /\ last.status = 201 /\ last.data.summary = {}
    /\ \E p \in posts :
          /\ Len(p.content) > MaxLength
          /\ Cardinality({i \in 1..MaxLength : p.content[i] = " "}) = 2
          /\ p.content[1] = "x"

\* the posts a listing with the filters sent has to consider
Matching(filters) ==
    {p \in posts :
        /\ filters.status # {} => p.status \in filters.status
        /\ filters.status = {} => p.status = "published"
        /\ \A tag \in filters.tags : tag \in p.tags
        /\ \A author_id \in filters.author_id : p.author_id = author_id}

\* C17: a listing of posts returns posts that meet every filter sent, and
\* only published ones when no status is sent; they are in the order of
\* created_at, newest first, each at the place its created_at gives it among
\* all the matching posts after the offset, at most limit of them; the total
\* is the number of all matching posts whatever limit and offset are.
C17_PostsFiltered ==
    last.op = "get_posts" =>
        LET M == Matching(last.data)
            items == last.items
            rest == Cardinality(M) - last.offset
            Newer(x) == {p \in M : p.created_at > x.created_at}
            NotOlder(x) == {p \in M : p.created_at >= x.created_at}
        IN  /\ last.status = 200
            /\ last.total = Cardinality(M)
            /\ Len(items) = IF rest < 0 THEN 0
                            ELSE IF rest < last.limit THEN rest ELSE last.limit
            /\ \A i \in 1..Len(items) :
                  /\ \E p \in M : p.id = items[i].id /\ p.created_at = items[i].created_at
                  /\ Cardinality(Newer(items[i])) <= last.offset + i - 1
                  /\ Cardinality(NotOlder(items[i])) >= last.offset + i
            /\ \A i, j \in 1..Len(items) : i # j => items[i].id # items[j].id

\* a listing sent without a status while a draft newer than the one
\* published post is stored: the draft is left out of items and total
C17_Witness ==
    /\ last.op = "get_posts" /\ last.data.status = {} /\ last.offset = 0
    /\ Len(last.items) = 1 /\ last.total = 1
    /\ \E p \in posts :
          p.status = "draft" /\ p.created_at > last.items[1].created_at

\* C18: an update of one's own profile that carries a role is answered
\* Forbidden and leaves the user store as it was, whatever the role stored
\* for the actor and whatever the role asked for.
C18_NoOwnRoleChange ==
    [][(last'.op = "update_user_me" /\ last'.data.user_data.role # {}) =>
           (last'.status = 403 /\ users' = users)]_vars

\* an admin, so made by another admin, was refused the role user for itself
C18_Witness ==
    /\ last.op = "update_user_me" /\ last.status = 403 /\ last.user = "u1"
    /\ last.data.user_data.role = {"user"}
    /\ users["u1"].role = "admin"

\* the ids a finished read returned, nested replies included
Returned == Range(Flatten(last.items))

\* the comments of a listing, each with the parent_id of the list it is in
RECURSIVE Occurrences(_, _)
Occurrences(items, parent) ==
    UNION {{<<parent, items[i].id>>} \cup Occurrences(items[i].replies, items[i].id)
              : i \in 1..Len(items)}

\* the stored comments a read of the request just answered has to list
Listed ==
    IF last.op = "get_replies" THEN Descendants(comments, last.id)
    ELSE {c \in comments :
            /\ c.post_id = last.id
            /\ ~last.data.include_replies => c.parent_id = None}

\* C19: a read that runs while comments are being deleted is answered
\* normally (not found only when the comment or post asked for is gone);
\* what it returns was stored when it began, none of it is a comment its
\* cursor yielded and find_one no longer found, and every comment in its
\* scope that is still stored is returned.
C19_ReadsTolerateDeletes ==
    ReadAnswered =>
        /\ last.status \in {200, 404}
        /\ last.status = 404 =>
              find_one(IF last.op = "get_replies" THEN comments ELSE posts,
                       last.id) = {}
        /\ last.status = 200 =>
              /\ Returned \subseteq last.data.start
              /\ Occurrences(last.items, IF last.op = "get_replies"
                                         THEN last.id ELSE None)
                    \cap last.data.vanished = {}
              /\ CommentIds(Listed) \subseteq Returned

\* a read was answered with some replies while a reply its cursor had
\* yielded was deleted before it was fetched
C19_Witness ==
    /\ last.op = "get_replies" /\ last.status = 200
    /\ last.data.vanished # {}
    /\ Len(last.items) > 0

\* C20: while one delete_comment runs alone, every step that removes
\* comments removes one comment, the target or one of its descendants, that
\* has no stored descendant left; the target goes with the step that ends
\* the request; and in every state on the way each stored reply has its
\* parent stored.
C20_BottomUp ==
    /\ [](\A c \in comments :
             c.parent_id # None => find_one(comments, c.parent_id) # {})
    /\ [][\A x \in comments \ comments' :
             /\ comments \ comments' = {x}
             /\ Descendants(comments, x.id) = {}
             /\ x.id = loc[1].id \/ loc[1].id \in Ancestors(comments, x)
             /\ x.id = loc[1].id => pc'[1] = "idle" /\ last'.status = 204]_vars

\* in the middle of a cascade: a reply of the target is about to be deleted
\* after its own replies were, the target still being stored
C20_Witness ==
    /\ pc[1] = "d_reply"
    /\ Len(loc[1].stack) = 1
    /\ find_one(comments, loc[1].id) # {}
    /\ \E c \in find_one(comments, loc[1].stack[1].comment_id) :
          /\ c.parent_id = loc[1].id
          /\ Descendants(comments, c.id) = {}
    /\ Cardinality(comments) < nextCommentId - 1

\* C21: a successful update of a post leaves every other post as it was,
\* sets updated_at to the instant of the request, writes the fields its
\* body sets and keeps the others, except that summary is derived again
\* when the body changes the content and sets no summary.
C21_UpdateFrame ==
    [][(last'.op = "update_post" /\ last'.status = 200) =>
         \E old \in posts, new \in posts' :
            LET d == last'.data
            IN  /\ old.id = last'.id /\ new.id = last'.id
                /\ posts' \ {new} = posts \ {old}
                /\ new.updated_at = clock'
                /\ new.author_id = old.author_id
                /\ new.created_at = old.created_at
                /\ new.title = Patched(d.title, old.title)
                /\ new.content = Patched(d.content, old.content)
                /\ new.tags = Patched(d.tags, old.tags)
                /\ new.status = Patched(d.status, old.status)
                /\ d.slug = {} => new.slug = old.slug
                /\ d.summary # {} => new.summary \in d.summary
                /\ d.summary = {} =>
                      IF new.content # old.content
                      THEN new.summary = get_summary_from_content(new.content,
                                                                   MaxLength)
                      ELSE new.summary = old.summary
      ]_vars

\* C22: a successful update of a comment leaves every other comment as it
\* was and changes nothing of the comment but its content, set to the text
\* sent, and its updated_at, set to the instant of the request.
C22_CommentUpdateFrame ==
    [][(last'.op = "update_comment" /\ last'.status = 200) =>
         \E old \in comments, new \in comments' :
            /\ old.id = last'.id /\ new.id = last'.id
            /\ comments' \ {new} = comments \ {old}
            /\ new.post_id = old.post_id
            /\ new.parent_id = old.parent_id
            /\ new.author_id = old.author_id
            /\ new.created_at = old.created_at
            /\ new.content = last'.content
            /\ new.updated_at = clock'
      ]_vars

\* a reply was given another text at a later instant by its author while its
\* parent is stored
C22_Witness ==
    /\ last.op = "update_comment" /\ last.status = 200
    /\ \E c, d \in comments :
          /\ c.id = last.id /\ c.parent_id = d.id
          /\ c.content = "b" /\ c.updated_at > c.created_at
          /\ d.content = "a"

\* C23: with two deletes running at once and no comment created meanwhile,
\* each delete comes to its end; a comment is removed only by a delete whose
\* target is that comment or an ancestor of it; when a delete ends its
\* target is not stored, and no stored comment ever lacks its parent, so
\* nothing of the target's subtree is left.
C23_OverlappingDeletes ==
    /\ \A p \in Procs : (pc[p] # "idle") ~> (pc[p] = "idle")
    /\ [](\A c \in comments :
             c.parent_id # None => find_one(comments, c.parent_id) # {})
    /\ [][\A p \in Procs :
             /\ (pc[p] # "idle" /\ pc'[p] = "idle") =>
                    find_one(comments', loc[p].id) = {}
             /\ <<pc'[p], loc'[p]>> # <<pc[p], loc[p]>> =>
                    \A x \in comments \ comments' :
                       x.id = loc[p].id \/ loc[p].id \in Ancestors(comments, x)
         ]_vars

\* both deletes have ended, one of a comment and one of its reply, the
\* second answered with an error because the first had removed its target;
\* the thread is gone and the comment beside it is stored
C23_Witness ==
    /\ \A p \in Procs : pc[p] = "idle"
    /\ last.op = "delete_comment" /\ last.status = 500
    /\ nextCommentId > 3
    /\ \E c \in comments : comments = {c} /\ c.id # last.id

\* C24: a stored comment keeps its post_id, parent_id and author_id; a
\* comment is inserted while its parent is stored; and in every state no
\* comment is its own ancestor, so that the recursions over replies end.
C24_CommentForest ==
    /\ [](\A c \in comments : c.id \notin Ancestors(comments, c))
    /\ [][\A c \in comments, d \in comments' :
             d.id = c.id => /\ d.post_id = c.post_id
                            /\ d.parent_id = c.parent_id
                            /\ d.author_id = c.author_id]_vars
    /\ [][\A reply \in comments' :
             (reply.id \notin CommentIds(comments) /\ reply.parent_id # None) =>
                 find_one(comments, reply.parent_id) # {}]_vars

\* C25: with include_replies the top level of a post's listing is a page of
\* all the comments of the post, roots and replies alike, newest first,
\* offset and limit counted over that mixed sequence; replies are attached
\* to the items without parent and to no other; and a reply on the page of
\* its root is also listed among that root's replies.
C25_MixedPage ==
    (last.op = "get_post_comments" /\ last.status = 200 /\ last.include_replies) =>
        LET items == last.items
            all == {c \in comments : c.post_id = last.id}
            rest == Cardinality(all) - last.offset
            Newer(x) == {c \in all : c.created_at > x.created_at}
            NotOlder(x) == {c \in all : c.created_at >= x.created_at}
        IN  /\ Len(items) = IF rest <= 0 THEN 0
                            ELSE IF rest < last.limit THEN rest ELSE last.limit
            /\ \A i, j \in 1..Len(items) : i # j => items[i].id # items[j].id
            /\ \A i \in 1..Len(items) :
                  /\ \E c \in all : /\ c.id = items[i].id
                                    /\ c.parent_id = items[i].parent_id
                                    /\ c.created_at = items[i].created_at
                  /\ Cardinality(Newer(items[i])) <= last.offset + i - 1
                  /\ Cardinality(NotOlder(items[i])) >= last.offset + i
                  /\ items[i].has_replies <=> items[i].parent_id = None
                  /\ items[i].parent_id # None => items[i].replies = <<>>
            /\ \A i, j \in 1..Len(items) :
                  (\E c \in all : c.id = items[j].id
                                  /\ items[i].id \in Ancestors(comments, c)
                                  /\ items[i].parent_id = None) =>
                      items[j].id \in Range(Flatten(items[i].replies))

\* a listing with include_replies holds a reply at its top level, before its
\* root, and again among the replies of that root
C25_Witness ==
    /\ last.op = "get_post_comments" /\ last.status = 200 /\ last.include_replies
    /\ \E i, j \in 1..Len(last.items) :
          /\ j < i
          /\ last.items[i].parent_id = None
          /\ last.items[j].parent_id = last.items[i].id
          /\ last.items[j].id \in Range(Flatten(last.items[i].replies))

====
